---- MODULE Spec2Model ----
(***************************************************************************)
(* NoticeHub: the notification lifecycle (create / apply extraction /      *)
(* mark failed / update / delete with downtime-event rewiring) and the     *)
(* majority-vote extraction, modelled from src/src/data/crud.py and        *)
(* src/main.py.                                                            *)
(*                                                                         *)
(* The store is the set of committed rows of each table.  One ORM session  *)
(* is modelled: `pending` is the session's flushed but uncommitted view of *)
(* the tables (empty when the session has no open work).  Each handler is  *)
(* an operator from the session's view to an outcome [W, tx, ok, note]:    *)
(* the working copy it ends with, what it did with the transaction         *)
(* (commit, rollback, open: returned without either, untouched: wrote      *)
(* nothing), whether it reported success, and a note for the claims.       *)
(* A working copy left open stays in the session, where the session's next *)
(* commit persists it and its close discards it.                           *)
(*                                                                         *)
(* Foreign keys are not enforced by the store (the SQLite configuration    *)
(* of src/tests/conftest.py), so a downtime event or an impact may carry   *)
(* the id of a notification that does not exist.  Row ids are allocated    *)
(* as max(id) + 1.  Timestamps written by the handlers themselves          *)
(* (last_checked_at, created_at, updated_at) are left out.                 *)
(***************************************************************************)
EXTENDS Integers, Sequences, FiniteSets, TLC

\* ---------------------------------------------------------------- bounds
MaxNotif == 2
MaxEvents == 2
MaxMsg == 2
MaxNames == 2
MaxLifecycleEvents == 1
MaxDrift == 2

\* None, for nullable integer columns (ids and times)
Null == 0

NotifIds == 1..MaxNotif
MessageIds == 1..MaxMsg
ServiceIds == {1}
SystemIds == {1}

\* ----------------------------------------------------------------- enums
NoEnum == "none"
ProcessingStatusEnum ==
  {"unprocessed", "pending_llm", "processing_llm", "completed", "error",
   "pending_validation", "manual_review"}
NotificationTypeEnum ==
  {"maintenance", "outage", "update", "alert", "info", "security", "unknown"}
SeverityEnum == {"low", "medium", "high", "critical", "info", "unknown"}
NotificationStatusEnum ==
  {"new", "triaged", "action_pending", "in_progress", "resolved", "archived",
   "error_processing", "pending_manual_review", "pending_validation"}

\* ------------------------------------------------------------------ text
\* Text is a sequence of characters; NoneText stands for None, NoText for "".
\* The summaries the model feeds in:
NoneText == <<"None">>
\* the event times the model feeds in, as ISO text
EventStart == <<"2024-01-01T10:00:00">>
EventEnd == <<"2024-01-01T11:00:00">>
NoText == <<>>
SummaryPlain == <<"S", "u", "m", "m", "a", "r", "y">>
SummaryRestored ==
  <<"S", "e", "r", "v", "i", "c", "e", " ", "f", "u", "l", "l", "y", " ",
    "r", "e", "s", "t", "o", "r", "e", "d", " ", "a", "n", "d", " ",
    "o", "p", "e", "r", "a", "t", "i", "n", "g", " ",
    "n", "o", "r", "m", "a", "l", "l", "y">>
SummaryUpper == <<"R", "E", "S", "O", "L", "V", "E", "D">>
SummaryFixed == <<"I", "s", "s", "u", "e", " ", "F", "i", "x", "e", "d">>
SummaryUnresolved ==
  <<"s", "t", "i", "l", "l", " ", "u", "n", "r", "e", "s", "o", "l", "v", "e", "d">>
SummaryCompleted ==
  <<"M", "a", "i", "n", "t", "e", "n", "a", "n", "c", "e", " ",
    "c", "o", "m", "p", "l", "e", "t", "e", "d">>
SummaryDegraded == <<"d", "e", "g", "r", "a", "d", "e", "d">>
SummaryNormal ==
  <<"B", "a", "c", "k", " ", "t", "o", " ", "N", "o", "r", "m", "a", "l">>
Summaries ==
  {NoneText, NoText, SummaryPlain, SummaryRestored, SummaryUpper, SummaryFixed,
   SummaryUnresolved, SummaryCompleted, SummaryDegraded, SummaryNormal}

\* str.lower() on one character
LowerChar(c) ==
  CASE c = "R" -> "r" [] c = "E" -> "e" [] c = "S" -> "s" [] c = "O" -> "o"
    [] c = "L" -> "l" [] c = "V" -> "v" [] c = "D" -> "d" [] c = "I" -> "i"
    [] c = "F" -> "f" [] c = "M" -> "m" [] c = "B" -> "b" [] c = "N" -> "n"
    [] OTHER -> c

\* str.lower()
Lower(s) == [i \in 1..Len(s) |-> LowerChar(s[i])]

\* keyword in text (substring test)
Contains(s, kw) ==
  \E i \in 1..(Len(s) - Len(kw) + 1) : SubSeq(s, i, i + Len(kw) - 1) = kw

resolution_keywords ==
  << <<"r", "e", "s", "o", "l", "v", "e", "d">>,
     <<"f", "i", "x", "e", "d">>,
     <<"r", "e", "s", "o", "l", "v", "e", "d">>,
     <<"r", "e", "s", "t", "o", "r", "e", "d">>,
     <<"c", "o", "m", "p", "l", "e", "t", "e", "d">>,
     <<"n", "o", "r", "m", "a", "l">> >>

\* ----------------------------------------------------------------- state
VARIABLES
  raw_emails,            \* table raw_emails
  llm_data,              \* table llm_data
  notifications,         \* table notifications
  downtime_events,       \* table downtime_events
  notification_impacts,  \* table notification_impacts
  pending,               \* <<>> or <<W>>: the session's uncommitted view
  last,                  \* the last recorded call and what it returned
  vote_results,          \* analyze_with_voting: the votes collected so far
  attempt,               \* analyze_with_retry: attempts made for the current vote
  calls,                 \* LLM calls made by the running extraction
  result,                \* <<>> or <<r>>: what analyze_with_voting returned
  stats,                 \* what the last check_and_fix_data_consistency returned
  downtime_stats,        \* <<>> or <<s>>: what get_average_downtime_by_service returned
  registry,              \* tables external_services, internal_systems, dependencies
  sessions               \* the sessions of concurrent callers (<<>>: none)

vars ==
  <<raw_emails, llm_data, notifications, downtime_events,
    notification_impacts, pending, last, vote_results, attempt, calls, result,
    stats, downtime_stats, registry, sessions>>

\* the state of the store and its session
store == <<raw_emails, llm_data, notifications, downtime_events,
           notification_impacts, pending, last, stats, downtime_stats,
           registry, sessions>>

\* the state of an extraction
extraction == <<vote_results, attempt, calls, result>>

tables ==
  <<raw_emails, llm_data, notifications, downtime_events, notification_impacts>>

\* the committed store as one record
Committed ==
  [raw |-> raw_emails, llm |-> llm_data, notif |-> notifications,
   events |-> downtime_events, impacts |-> notification_impacts]

\* what the session sees: its own uncommitted work over the committed store
View == IF pending = <<>> THEN Committed ELSE pending[1]

EmptyStore == [raw |-> {}, llm |-> {}, notif |-> {}, events |-> {}, impacts |-> {}]

Outcome(W, tx, ok, note) == [W |-> W, tx |-> tx, ok |-> ok, note |-> note]

NoCall == [op |-> "-", arg |-> Null, ok |-> TRUE, note |-> "-"]

\* the stats dictionary as check_and_fix_data_consistency initialises it
NoStats ==
  [orphaned_llm_data |-> 0, orphaned_raw_email |-> 0,
   incomplete_notifications |-> 0, orphaned_impacts |-> 0,
   fixed_issues |-> 0, errors |-> 0]

\* the registry as the seeding leaves it: external service 1, named S1, and
\* internal system 1, which depends on it
SeededRegistry ==
  [services |-> {[id |-> 1, service_name |-> <<"S", "1">>,
                  provider |-> NoneText, description |-> NoneText]},
   systems |-> {[id |-> 1, system_name |-> <<"I", "1">>,
                 responsible_contact |-> NoneText, description |-> NoneText]},
   deps |-> {[id |-> 1, internal_system_id |-> 1, external_service_id |-> 1,
              dependency_description |-> NoneText]}]

EmptyRegistry == [services |-> {}, systems |-> {}, deps |-> {}]

\* One call of handler `op` with argument `arg` on the session: the
\* transaction part of its outcome applied to the store; `recorded` says
\* whether `last` keeps the call.
Call(op, arg, outcome, recorded) ==
  /\ CASE outcome.tx = "commit" ->       \* db.commit()
            /\ raw_emails' = outcome.W.raw
            /\ llm_data' = outcome.W.llm
            /\ notifications' = outcome.W.notif
            /\ downtime_events' = outcome.W.events
            /\ notification_impacts' = outcome.W.impacts
            /\ pending' = <<>>
       [] outcome.tx = "rollback" ->     \* db.rollback()
            /\ UNCHANGED tables
            /\ pending' = <<>>
       [] outcome.tx = "open" ->         \* flushed, neither committed nor rolled back
            /\ UNCHANGED tables
            /\ pending' = IF outcome.W = Committed THEN <<>> ELSE <<outcome.W>>
       [] OTHER ->                       \* nothing written
            UNCHANGED <<tables, pending>>
  /\ last' = IF recorded
             THEN [op |-> op, arg |-> arg, ok |-> outcome.ok, note |-> outcome.note]
             ELSE NoCall
  /\ stats' = NoStats                    \* kept until the next call only
  /\ downtime_stats' = <<>>
  /\ UNCHANGED <<registry, sessions>>
  /\ UNCHANGED extraction

Ids(rows) == {r.id : r \in rows}

Max(S) == CHOOSE x \in S : \A y \in S : y <= x

\* autoincrement primary key
NextId(rows) == IF rows = {} THEN 1 ELSE Max(Ids(rows)) + 1

\* hashlib.sha256(original_email_id_str.encode()).hexdigest()
Sha256(original_email_id_str) == <<"sha256", original_email_id_str>>

\* ---------------------------------------------------------------- Create
\* the statements of create_notification at which a database error may be
\* raised ("none": no error)
CreateFailurePoints ==
  {"none", "raw_flush", "llm_flush", "commit", "refresh", "second_commit"}

\* rows whose LLM data starts as pending_llm
CreatedRows_pending_llm(W, subject, original_email_id_str) ==
  LET raw_id == NextId(W.raw)
      llm_id == NextId(W.llm)
      nid == NextId(W.notif)
  IN [W EXCEPT
        !.raw = @ \cup {[id |-> raw_id,
                         original_email_id_hash |-> Sha256(original_email_id_str),
                         subject |-> subject]},
        !.llm = @ \cup {[id |-> llm_id,
                         processing_status |-> "pending_llm",
                         error_message |-> NoneText,
                         extracted_service_name |-> NoneText,
                         event_start_time |-> NoneText,
                         event_end_time |-> NoneText,
                         notification_type |-> "unknown",
                         severity |-> "unknown",
                         llm_summary |-> NoneText]},
        !.notif = @ \cup {[id |-> nid,
                           title |-> subject,
                           status |-> "new",
                           raw_email_id |-> raw_id,
                           llm_data_id |-> llm_id]}]

\* the rows create_notification adds
CreatedRows(W, subject, original_email_id_str) ==
  LET raw_id == NextId(W.raw)
      llm_id == NextId(W.llm)
      nid == NextId(W.notif)
  IN [W EXCEPT
        !.raw = @ \cup {[id |-> raw_id,
                         original_email_id_hash |-> Sha256(original_email_id_str),
                         subject |-> subject]},
        !.llm = @ \cup {[id |-> llm_id,
                         processing_status |-> "unprocessed",
                         error_message |-> NoneText,
                         extracted_service_name |-> NoneText,
                         event_start_time |-> NoneText,
                         event_end_time |-> NoneText,
                         notification_type |-> "unknown",
                         severity |-> "unknown",
                         llm_summary |-> NoneText]},
        !.notif = @ \cup {[id |-> nid,
                           title |-> subject,
                           status |-> "new",
                           raw_email_id |-> raw_id,
                           llm_data_id |-> llm_id]}]

\* a table without the unique index on the hash
HashTaken_no_index(W, original_email_id_str) == FALSE

\* the unique index on raw_emails.original_email_id_hash rejects the flush
HashTaken(W, original_email_id_str) ==
  \E r \in W.raw : r.original_email_id_hash = Sha256(original_email_id_str)

\* the failure points that precede the end of the first db.commit(): the
\* except branch's rollback undoes the inserts
BeforeCommit(at) == at \in {"raw_flush", "llm_flush", "commit"}

\* the unique indexes on notifications.raw_email_id and
\* notifications.llm_data_id reject the insert of the notification, which is
\* flushed by the commit at line 118 (a row id is reused when the rows above
\* it are gone)
RefsTaken(W) ==
  \E n \in W.notif : \/ n.raw_email_id = NextId(W.raw)
                      \/ n.llm_data_id = NextId(W.llm)

\* create_notification; `at` is the statement that raises, if any
create_notification(W, subject, original_email_id_str, at) ==
  IF HashTaken(W, original_email_id_str)
  THEN Outcome(W, "rollback", FALSE, "raw_flush")
  ELSE IF RefsTaken(W)
  THEN Outcome(W, "rollback", FALSE, "commit")
  ELSE IF BeforeCommit(at)
  THEN Outcome(W, "rollback", FALSE, at)
  ELSE \* committed at line 118; a later error still returns None
       Outcome(CreatedRows(W, subject, original_email_id_str), "commit",
               at = "none", at)

\* the row ids a create would take are within the model's bound
RoomForNotification(W) ==
  /\ NextId(W.notif) <= MaxNotif
  /\ NextId(W.raw) <= MaxNotif
  /\ NextId(W.llm) <= MaxNotif

\* a lookup that compares the email id itself with the stored hashes
get_notification_by_original_email_id_unhashed(W, original_email_id_str) ==
  LET raws == {r \in W.raw :
                 r.original_email_id_hash = <<"plain", original_email_id_str>>}
  IN IF raws = {} THEN {}
     ELSE {n \in W.notif : n.raw_email_id \in Ids(raws)}

\* get_notification_by_original_email_id
get_notification_by_original_email_id(W, original_email_id_str) ==
  LET raws == {r \in W.raw :
                 r.original_email_id_hash = Sha256(original_email_id_str)}
  IN IF raws = {} THEN {}
     ELSE {n \in W.notif : n.raw_email_id \in Ids(raws)}

\* ------------------------------------------------------- downtime events
\* create_downtime_event
create_downtime_event(W, external_service_id, start_notification_id, start_time, severity) ==
  LET event == [id |-> NextId(W.events),
                external_service_id |-> external_service_id,
                start_notification_id |-> start_notification_id,
                start_time |-> start_time,
                end_notification_id |-> Null,
                end_time |-> Null,
                severity |-> severity,
                summary |-> SummaryDegraded]
  IN Outcome([W EXCEPT !.events = @ \cup {event}], "commit", TRUE, "")

\* a close that records the end notification and leaves the end time unset
close_downtime_event_without_end_time(W, event_id, end_notification_id, end_time) ==
  IF \A e \in W.events : e.id # event_id
  THEN Outcome(W, "untouched", FALSE, "not_found")
  ELSE Outcome([W EXCEPT !.events =
                  {IF e.id = event_id
                   THEN [e EXCEPT !.end_notification_id = end_notification_id]
                   ELSE e : e \in @}],
               "commit", TRUE, "")

\* close_downtime_event
close_downtime_event(W, event_id, end_notification_id, end_time) ==
  IF \A e \in W.events : e.id # event_id
  THEN Outcome(W, "untouched", FALSE, "not_found")
  ELSE Outcome([W EXCEPT !.events =
                  {IF e.id = event_id
                   THEN [e EXCEPT !.end_notification_id = end_notification_id,
                                  !.end_time = end_time]
                   ELSE e : e \in @}],
               "commit", TRUE, "")

\* create_notification_impact
create_notification_impact(W, notification_id, internal_system_id) ==
  LET impact == [notification_id |-> notification_id,
                 internal_system_id |-> internal_system_id]
  IN IF impact \in W.impacts
     THEN Outcome(W, "untouched", TRUE, "existing")
     ELSE Outcome([W EXCEPT !.impacts = @ \cup {impact}], "commit", TRUE, "")

\* ---------------------------------------------------------------- Delete
\* the rows of a query in id order, as a sequence
RECURSIVE InIdOrder(_)
InIdOrder(rows) ==
  IF rows = {} THEN <<>>
  ELSE LET first == CHOOSE r \in rows : \A o \in rows : r.id <= o.id
       IN <<first>> \o InIdOrder(rows \ {first})

\* a reopening that clears the end reference and keeps the end time
Reopen_keeps_end_time(event) == [event EXCEPT !.end_notification_id = Null]

\* event.end_notification_id = None; event.end_time = None
Reopen(event) == [event EXCEPT !.end_notification_id = Null, !.end_time = Null]

\* a delete that leaves the events the notification started
DeleteStartedEvents_kept(W, notification_id) == W

\* for event in referenced_as_start: db.delete(event)
DeleteStartedEvents(W, notification_id) ==
  [W EXCEPT !.events = {e \in @ : e.start_notification_id # notification_id}]

\* a delete that leaves the events ended by the notification as they are
ReopenEndedEvents_skipped(W, notification_id) == W

\* for event in referenced_as_end: clear the end reference (a row deleted as
\* a start reference just before is gone and stays gone)
ReopenEndedEvents(W, notification_id) ==
  [W EXCEPT !.events =
     {IF e.end_notification_id = notification_id THEN Reopen(e) ELSE e : e \in @}]

\* a delete that does not follow the end notifications of the deleted events
EndNotificationsToDelete_none(W, notification_id) == <<>>

\* end_notifications_to_delete
EndNotificationsToDelete(W, notification_id) ==
  LET started == InIdOrder({e \in W.events : e.start_notification_id = notification_id})
  IN SelectSeq([i \in 1..Len(started) |-> started[i].end_notification_id],
               LAMBDA end_id : end_id # Null)

\* a delete that removes the impacts and the notification row only
DeleteRows_notification_only(W, notification) ==
  [W EXCEPT
     !.impacts = {i \in @ : i.notification_id # notification.id},
     !.notif = {n \in @ : n.id # notification.id}]

\* the impacts, the notification and its two sub-records are deleted
DeleteRows(W, notification) ==
  [W EXCEPT
     !.impacts = {i \in @ : i.notification_id # notification.id},
     !.notif = {n \in @ : n.id # notification.id},
     !.llm = {l \in @ : l.id # notification.llm_data_id},
     !.raw = {r \in @ : r.id # notification.raw_email_id}]

\* the working copy with which delete_notification returns False when the
\* notification is not found: the event changes flushed before the lookup
\* are still in it (the return at line 584 rolls nothing back)
NotFoundCopy(before, flushed) == flushed

RECURSIVE delete_notification(_, _, _, _)
RECURSIVE DeleteEndNotifications(_, _, _, _, _)

\* for end_id in end_notifications_to_delete:
\*     if end_id != notification_id: delete_notification(db, end_id, internal_call=True)
DeleteEndNotifications(base, s, ends, notification_id, failing) ==
  IF ends = <<>> THEN s
  ELSE LET r == IF Head(ends) # notification_id
                THEN delete_notification(base, s, Head(ends), failing)
                ELSE s
       IN DeleteEndNotifications(base, r, Tail(ends), notification_id, failing)

\* The body of delete_notification up to its commit.  s.W is the session's
\* working copy and s.closed says that a db.rollback() has ended the
\* session's transaction; base is the committed store; `failing` is the
\* notification id whose call meets a database error (Null: none).  The
\* result adds ret, the value returned.
delete_notification(base, s, notification_id, failing) ==
  IF notification_id = failing
  THEN \* except: db.rollback() undoes the whole session; return False
       [W |-> base, closed |-> TRUE, ret |-> FALSE]
  ELSE
    LET ends == EndNotificationsToDelete(s.W, notification_id)
        W1 == DeleteStartedEvents(s.W, notification_id)
        W2 == ReopenEndedEvents(W1, notification_id)
        found == {n \in W2.notif : n.id = notification_id}
    IN IF found = {}
       THEN [W |-> NotFoundCopy(s.W, W2), closed |-> s.closed, ret |-> FALSE]
       ELSE LET r == DeleteEndNotifications(
                       base, [W |-> W2, closed |-> s.closed, ret |-> TRUE],
                       ends, notification_id, failing)
            IN [W |-> DeleteRows(r.W, CHOOSE n \in found : TRUE),
                closed |-> r.closed, ret |-> TRUE]

\* how the events of the store refer to the notification a Delete is called
\* for (kept in the note of a successful call)
DeleteCase(W, notification_id) ==
  IF \E e \in W.events : /\ e.start_notification_id = notification_id
                         /\ e.end_notification_id = notification_id
  THEN "start_and_end"
  ELSE IF \E e \in W.events : /\ e.start_notification_id = notification_id
                              /\ e.end_notification_id \in Ids(W.notif)
  THEN "start_with_end"
  ELSE IF \E e \in W.events : e.start_notification_id = notification_id
  THEN "start"
  ELSE IF \E e \in W.events : e.end_notification_id = notification_id
  THEN "end_only"
  ELSE "unreferenced"

\* the notifications a delete of n reaches: n, and the end notification of
\* every event started by a reached notification that exists
RECURSIVE Reached(_, _)
Reached(W, S) ==
  LET more == {e.end_notification_id :
                 e \in {x \in W.events :
                          /\ x.start_notification_id \in S \cap Ids(W.notif)
                          /\ x.end_notification_id # Null}}
  IN IF more \subseteq S THEN S ELSE Reached(W, S \cup more)

\* what may go wrong in one Delete call on notification_id: nothing (Null),
\* or a database error (at a query, a flush or the commit) inside the call
\* made for one of the notifications the delete reaches
DeleteFaults(W, notification_id) == {Null} \cup Reached(W, {notification_id})

\* Delete(notification_id): delete_notification(db, notification_id)
Delete(base, W, notification_id, failing) ==
  LET r == delete_notification(base, [W |-> W, closed |-> FALSE, ret |-> TRUE],
                               notification_id, failing)
  IN IF failing = notification_id
     THEN \* except: transaction.rollback(); db.rollback(); return False
          Outcome(W, "rollback", FALSE, "error")
     ELSE IF r.closed
     THEN \* an inner call rolled the session back and this call went on:
          \* transaction.commit() raises on the ended savepoint and so does
          \* transaction.rollback() in the except branch; the error leaves
          \* the function with the later deletes still in the session
          Outcome(r.W, "open", FALSE, "error")
     ELSE IF r.ret
     THEN Outcome(r.W, "commit", TRUE, DeleteCase(W, notification_id))
     ELSE \* return False at line 584: nothing committed, nothing rolled back
          Outcome(r.W, "open", FALSE, "not_found")

\* ------------------------------------------------------- status mapping
\* a mapping that has no case for the processing status error
map_llm_status_to_notification_status_no_error(llm_processing_status) ==
  IF llm_processing_status = "manual_review" THEN "pending_manual_review"
  ELSE IF llm_processing_status = "pending_validation" THEN "pending_validation"
  ELSE "new"

\* _map_llm_status_to_notification_status
map_llm_status_to_notification_status(llm_processing_status) ==
  IF llm_processing_status = "error" THEN "error_processing"
  ELSE IF llm_processing_status = "manual_review" THEN "pending_manual_review"
  ELSE IF llm_processing_status = "pending_validation" THEN "pending_validation"
  ELSE "new"

\* a keyword test that does not lower-case the summary
IndicatesResolution_case_sensitive(llm_summary) ==
  \E k \in 1..Len(resolution_keywords) :
    Contains(llm_summary, resolution_keywords[k])

\* any(keyword in llm_summary.lower() for keyword in resolution_keywords)
IndicatesResolution(llm_summary) ==
  \E k \in 1..Len(resolution_keywords) :
    Contains(Lower(llm_summary), resolution_keywords[k])

\* a str is truthy when it is neither None nor ""
Truthy(text) == text # NoneText /\ text # NoText

\* a mapping that reports every completed extraction as triaged unless it
\* is about an outage, an alert or a resolution
map_notification_type_to_status_triaged(notification_type, llm_summary) ==
  IF notification_type \in {"outage", "alert"} THEN "in_progress"
  ELSE IF /\ notification_type \in {"update", "info"}
          /\ Truthy(llm_summary)
          /\ IndicatesResolution(llm_summary)
       THEN "resolved"
  ELSE "triaged"

\* _map_notification_type_to_status
map_notification_type_to_status(notification_type, llm_summary) ==
  IF notification_type = NoEnum THEN "new"
  ELSE IF notification_type = "outage" THEN "in_progress"
  ELSE IF notification_type = "maintenance" THEN "action_pending"
  ELSE IF notification_type = "alert" THEN "in_progress"
  ELSE IF notification_type = "security" THEN "action_pending"
  ELSE IF /\ notification_type \in {"update", "info"}
          /\ Truthy(llm_summary)
          /\ IndicatesResolution(llm_summary)
       THEN "resolved"
  ELSE "new"

\* a rule that lets the notification type of a completed extraction decide
\* before the explicit status
ExtractionStatus_type_first(notification_type, llm_summary, processing_status, notification_status) ==
  IF processing_status = "completed"
  THEN map_notification_type_to_status(notification_type, llm_summary)
  ELSE IF notification_status # NoEnum THEN notification_status
  ELSE map_llm_status_to_notification_status(processing_status)

\* the status update_llm_data_extracted_fields gives the parent notification
ExtractionStatus(notification_type, llm_summary, processing_status, notification_status) ==
  IF notification_status # NoEnum THEN notification_status
  ELSE IF processing_status = "completed"
       THEN map_notification_type_to_status(notification_type, llm_summary)
  ELSE map_llm_status_to_notification_status(processing_status)

\* status_source: which rule gave the parent notification its status
StatusSource(W, llm_data_id, processing_status, notification_status) ==
  IF \A n \in W.notif : n.llm_data_id # llm_data_id THEN "no parent"
  ELSE IF notification_status # NoEnum THEN "LLM-determined status"
  ELSE IF processing_status = "completed" THEN "notification type mapping"
  ELSE "processing status mapping"

\* the parent: db.query(Notification).filter(llm_data_id == id).first()
SetParentStatus(W, llm_data_id, status) ==
  LET parents == {n \in W.notif : n.llm_data_id = llm_data_id}
      parent == CHOOSE n \in parents : \A o \in parents : n.id <= o.id
  IN IF parents = {} THEN W
     ELSE [W EXCEPT !.notif =
             {IF n = parent THEN [n EXCEPT !.status = status] ELSE n : n \in @}]

\* an update without the not-found return
update_llm_data_extracted_fields_unchecked(W, llm_data_id, f, commit_fails) ==
  LET W1 == [W EXCEPT !.llm =
               {IF l.id = llm_data_id
                THEN [l EXCEPT
                        !.extracted_service_name = f.extracted_service_name,
                        !.event_start_time = f.event_start_time,
                        !.event_end_time = f.event_end_time,
                        !.notification_type = f.notification_type,
                        !.severity = f.severity,
                        !.llm_summary = f.llm_summary,
                        !.processing_status = f.processing_status,
                        !.error_message = NoneText]
                ELSE l : l \in @}]
      W2 == SetParentStatus(W1, llm_data_id,
              ExtractionStatus(f.notification_type, f.llm_summary,
                               f.processing_status, f.notification_status))
  IN IF commit_fails
     THEN Outcome(W, "rollback", FALSE, "error")
     ELSE Outcome(W2, "commit", TRUE,
                  StatusSource(W, llm_data_id, f.processing_status,
                               f.notification_status))

\* ApplyExtraction: update_llm_data_extracted_fields; f holds the arguments
update_llm_data_extracted_fields(W, llm_data_id, f, commit_fails) ==
  LET found == {l \in W.llm : l.id = llm_data_id}
      W1 == [W EXCEPT !.llm =
               {IF l.id = llm_data_id
                THEN [l EXCEPT
                        !.extracted_service_name = f.extracted_service_name,
                        !.event_start_time = f.event_start_time,
                        !.event_end_time = f.event_end_time,
                        !.notification_type = f.notification_type,
                        !.severity = f.severity,
                        !.llm_summary = f.llm_summary,
                        !.processing_status = f.processing_status,
                        !.error_message = NoneText]
                ELSE l : l \in @}]
      W2 == SetParentStatus(W1, llm_data_id,
              ExtractionStatus(f.notification_type, f.llm_summary,
                               f.processing_status, f.notification_status))
  IN IF found = {}
     THEN Outcome(W, "untouched", FALSE, "not_found")
     ELSE IF commit_fails
     THEN Outcome(W, "rollback", FALSE, "error")
     ELSE Outcome(W2, "commit", TRUE,
                  StatusSource(W, llm_data_id, f.processing_status,
                               f.notification_status))

\* a status update that keeps the error message the row had
update_llm_data_status_keeps_message(W, llm_data_id, processing_status, error_message, commit_fails) ==
  LET found == {l \in W.llm : l.id = llm_data_id}
      W1 == [W EXCEPT !.llm =
               {IF l.id = llm_data_id
                THEN [l EXCEPT !.processing_status = processing_status]
                ELSE l : l \in @}]
      W2 == SetParentStatus(W1, llm_data_id,
              map_llm_status_to_notification_status(processing_status))
  IN IF found = {}
     THEN Outcome(W, "untouched", FALSE, "not_found")
     ELSE IF commit_fails
     THEN Outcome(W, "rollback", FALSE, "error")
     ELSE Outcome(W2, "commit", TRUE, "")

\* MarkExtractionFailed and the other status changes: update_llm_data_status
update_llm_data_status(W, llm_data_id, processing_status, error_message, commit_fails) ==
  LET found == {l \in W.llm : l.id = llm_data_id}
      W1 == [W EXCEPT !.llm =
               {IF l.id = llm_data_id
                THEN [l EXCEPT !.processing_status = processing_status,
                               !.error_message = error_message]
                ELSE l : l \in @}]
      W2 == SetParentStatus(W1, llm_data_id,
              map_llm_status_to_notification_status(processing_status))
  IN IF found = {}
     THEN Outcome(W, "untouched", FALSE, "not_found")
     ELSE IF commit_fails
     THEN Outcome(W, "rollback", FALSE, "error")
     ELSE Outcome(W2, "commit", TRUE, "")

\* an update that sets the status again from the notification type when no
\* status is given
update_notification_remapped(W, notification_id, u, commit_fails) ==
  LET found == {n \in W.notif : n.id = notification_id}
      notification == CHOOSE n \in found : TRUE
      data == CHOOSE l \in W.llm : l.id = notification.llm_data_id
      W1 == [W EXCEPT !.notif =
               {IF n.id = notification_id
                THEN [n EXCEPT
                        !.title = IF u.title # NoneText THEN u.title ELSE @,
                        !.status = IF u.status # NoEnum THEN u.status
                                   ELSE map_notification_type_to_status(
                                          data.notification_type, data.llm_summary)]
                ELSE n : n \in @}]
      W2 == [W1 EXCEPT !.llm =
               {IF l.id = notification.llm_data_id
                THEN [l EXCEPT
                        !.extracted_service_name =
                           IF u.service_name # NoneText THEN u.service_name ELSE @,
                        !.severity = IF u.severity # NoEnum THEN u.severity ELSE @]
                ELSE l : l \in @}]
  IN IF found = {}
     THEN Outcome(W, "untouched", FALSE, "not_found")
     ELSE IF commit_fails
     THEN Outcome(W, "rollback", FALSE, "error")
     ELSE Outcome(W2, "commit", TRUE, "")

\* Update: update_notification; u holds the keyword arguments, NoneText and
\* NoEnum standing for an argument that is not given
update_notification(W, notification_id, u, commit_fails) ==
  LET found == {n \in W.notif : n.id = notification_id}
      notification == CHOOSE n \in found : TRUE
      W1 == [W EXCEPT !.notif =
               {IF n.id = notification_id
                THEN [n EXCEPT
                        !.title = IF u.title # NoneText THEN u.title ELSE @,
                        !.status = IF u.status # NoEnum THEN u.status ELSE @]
                ELSE n : n \in @}]
      W2 == [W1 EXCEPT !.llm =
               {IF l.id = notification.llm_data_id
                THEN [l EXCEPT
                        !.extracted_service_name =
                           IF u.service_name # NoneText THEN u.service_name ELSE @,
                        !.severity = IF u.severity # NoEnum THEN u.severity ELSE @]
                ELSE l : l \in @}]
  IN IF found = {}
     THEN Outcome(W, "untouched", FALSE, "not_found")
     ELSE IF commit_fails
     THEN Outcome(W, "rollback", FALSE, "error")
     ELSE Outcome(W2, "commit", TRUE, "")

\* ------------------------------------------------------------------ Spec
\* The delete cascade: notifications are created, downtime events opened
\* and closed on them, impacts attached, and notifications deleted, with
\* and without database errors.  Only Delete calls are recorded in `last`.
Init ==
  /\ raw_emails = {}
  /\ llm_data = {}
  /\ notifications = {}
  /\ downtime_events = {}
  /\ notification_impacts = {}
  /\ pending = <<>>
  /\ last = NoCall
  /\ vote_results = <<>>
  /\ attempt = 0
  /\ calls = 0
  /\ result = <<>>
  /\ stats = NoStats
  /\ downtime_stats = <<>>
  /\ registry = SeededRegistry
  /\ sessions = <<>>

\* A handler starts on a session with no work left open by an earlier call
\* (the API opens a session per request).
Idle == pending = <<>>

\* each message of the mailbox is taken in once here; see SpecIntake for
\* repeated deliveries
CreateAct ==
  /\ Idle
  /\ RoomForNotification(View)
  /\ Call("Create", NextId(View.raw),
          create_notification(View, <<"subject">>, NextId(View.raw), "none"),
          FALSE)

OpenEventAct ==
  /\ Idle
  /\ NextId(View.events) <= MaxEvents
  /\ \E n \in Ids(View.notif) :
       Call("OpenEvent", n, create_downtime_event(View, 1, n, 1, "high"), FALSE)

\* an open event is closed; the end notification id is whatever the caller
\* passes (nothing checks that it resolves to a notification)
CloseEventAct ==
  /\ Idle
  /\ \E e \in {x.id : x \in {y \in View.events : y.end_notification_id = Null}},
        n \in NotifIds :
       Call("CloseEvent", e, close_downtime_event(View, e, n, 2), FALSE)

CreateImpactAct ==
  /\ Idle
  /\ \E n \in Ids(View.notif), system \in SystemIds :
       Call("CreateImpact", n, create_notification_impact(View, n, system), FALSE)

\* one Delete call on notification n with fault `failing`; `last` keeps the
\* id of the notification when the call succeeds
DeleteCall(n, failing) ==
  LET outcome == Delete(Committed, View, n, failing)
  IN /\ Idle
     /\ Call("Delete", IF outcome.ok THEN n ELSE Null, outcome, TRUE)

DeleteAct ==
  \E n \in NotifIds : \E failing \in DeleteFaults(View, n) : DeleteCall(n, failing)

\* the work a call left open is discarded: the request ends and db.close()
\* runs, or a later call on the session rolls back
CloseSession ==
  /\ ~Idle
  /\ pending' = <<>>
  /\ UNCHANGED <<tables, last, extraction, stats, downtime_stats, registry, sessions>>

\* the work a call left open is persisted: the caller, told False, goes on
\* to use the session and the next db.commit() on it commits that work too
\* (an error that left the call ends the request instead)
CommitSession ==
  /\ ~Idle
  /\ last.note # "error"
  /\ raw_emails' = View.raw
  /\ llm_data' = View.llm
  /\ notifications' = View.notif
  /\ downtime_events' = View.events
  /\ notification_impacts' = View.impacts
  /\ pending' = <<>>
  /\ UNCHANGED <<last, extraction, stats, downtime_stats, registry, sessions>>

Next ==
  \/ CreateAct
  \/ OpenEventAct
  \/ CloseEventAct
  \/ CreateImpactAct
  \/ DeleteAct
  \/ CloseSession
  \/ CommitSession

Spec == Init /\ [][Next]_vars

\* --------------------------------------------------------- Delete claims
\* a Delete call on n that reports success
DeleteSucceeds(n) ==
  /\ last' = [op |-> "Delete", arg |-> n, ok |-> TRUE, note |-> last'.note]
  /\ \E failing \in DeleteFaults(View, n) : DeleteCall(n, failing)

\* notification m and everything that hangs on it is absent from the store
Absent(rows, m) ==
  /\ \A x \in notifications' : x.id # m
  /\ \A x \in rows : \A r \in raw_emails' : r.id # x.raw_email_id
  /\ \A x \in rows : \A l \in llm_data' : l.id # x.llm_data_id
  /\ \A i \in notification_impacts' : i.notification_id # m
  /\ \A e \in downtime_events' :
       e.start_notification_id # m /\ e.end_notification_id # m

C7_DeleteOfEndOnlyNotification ==
  [][\A n \in NotifIds :
       DeleteSucceeds(n) =>
         \A e \in downtime_events :
           (e.end_notification_id = n /\ e.start_notification_id # n) =>
              \/ [e EXCEPT !.end_notification_id = Null, !.end_time = Null]
                   \in downtime_events'
              \/ /\ e.start_notification_id \in Reached(Committed, {n})
                 /\ \A x \in downtime_events' : x.id # e.id
                 /\ \A x \in notifications' : x.id # e.start_notification_id]_vars

\* C7 witness: a Delete succeeded on a notification that only ended events,
\* and an open event is in the store afterwards
C7_Witness ==
  /\ last.op = "Delete" /\ last.ok /\ last.note = "end_only"
  /\ \E e \in downtime_events :
       e.end_notification_id = Null /\ e.end_time = Null

\* C7 as stated: when Delete(n) succeeds and n is the end reference but not
\* the start reference of an event e, e still exists afterwards, reopened
\* and otherwise unchanged.
C7_AsStated ==
  [][\A n \in NotifIds :
       DeleteSucceeds(n) =>
         \A e \in downtime_events :
           (e.end_notification_id = n /\ e.start_notification_id # n) =>
              [e EXCEPT !.end_notification_id = Null, !.end_time = Null]
                \in downtime_events']_vars

\* C8: a Delete call that reports failure has deleted and modified nothing:
\* the store is as before the call and the session holds no uncommitted
\* change that a later commit would persist.
C8_DeleteAllOrNothing ==
  [][(last'.op = "Delete" /\ ~last'.ok) =>
       (UNCHANGED tables /\ pending' = <<>>)]_vars

\* C9: after Delete(n) reports success, notification n, its raw email and
\* its LLM data do not exist, no impact references n and no event
\* references n as start or as end.
C9_DeletePostcondition ==
  [][\A n \in NotifIds :
       DeleteSucceeds(n) => Absent({x \in notifications : x.id = n}, n)]_vars

\* C9 witness: a Delete succeeded on a notification that was both the start
\* and the end of one event
C9_Witness ==
  /\ last.op = "Delete" /\ last.ok /\ last.note = "start_and_end"
  /\ pending = <<>>

\* the events of a service that are open
OpenEventsOf(external_service_id) ==
  {e \in downtime_events : /\ e.external_service_id = external_service_id
                           /\ e.end_time = Null}

\* C16: in every state reached by OpenEvent, CloseEvent and Delete calls in
\* any order, each external service has at most one downtime event whose end
\* time is null.
C16_SingleOpenEvent ==
  \A e \in downtime_events :
    Cardinality(OpenEventsOf(e.external_service_id)) <= 1

\* ------------------------------------------------------------ extraction
\* analyze_with_voting(votes=3)
Votes == 3

\* analyze_with_retry(max_attempts=2)
MaxAttempts == 2

\* the service names the LLM may extract (Null: it extracted None)
ServiceNames == 0..MaxNames

\* str.lower() on the notification types and severities the model feeds in
LowerWord(w) ==
  CASE w = "OUTAGE" -> "outage" [] w = "High" -> "high" [] OTHER -> w

\* What the LLM client may answer: an error, a dict with keys missing, a
\* dict with a type or a severity outside the allowed ones, or a dict that
\* passes validation.  `call` numbers the answers of one extraction, so that
\* two answers with the same content are told apart.
LLMAnswers ==
  {[error |-> TRUE, keys |-> "missing", notification_type |-> NoEnum,
    severity_level |-> NoEnum, extracted_service_name |-> Null]}
  \cup
  {[error |-> FALSE, keys |-> "missing", notification_type |-> "outage",
    severity_level |-> "high", extracted_service_name |-> 1]}
  \cup
  {[error |-> FALSE, keys |-> "complete", notification_type |-> "incident",
    severity_level |-> "high", extracted_service_name |-> 1]}
  \cup
  {[error |-> FALSE, keys |-> "complete", notification_type |-> "OUTAGE",
    severity_level |-> "High", extracted_service_name |-> name] :
      name \in ServiceNames}

\* validate_llm_extraction_response
validate_llm_extraction_response(data) ==
  LET allowed_types ==
        {"maintenance", "outage", "update", "alert", "info", "security",
         "unknown", NoEnum}
      allowed_severities ==
        {"low", "medium", "high", "critical", "info", "unknown", NoEnum}
  IN /\ data.keys = "complete"
     /\ LowerWord(data.notification_type) \in allowed_types
     /\ LowerWord(data.severity_level) \in allowed_severities

\* not r.get("error") and validate_llm_extraction_response(r)
IsValid(r) == ~r.error /\ validate_llm_extraction_response(r)

\* valid = [r for r in vote_results if ...]
Valid(results) == SelectSeq(results, IsValid)

\* counts[name]
CountOf(valid, name) ==
  Cardinality({i \in 1..Len(valid) : valid[i].extracted_service_name = name})

\* a majority that takes the last of the names with the highest count
Majority_last(valid) ==
  LET best == CHOOSE i \in 1..Len(valid) :
        /\ \A j \in 1..Len(valid) :
             CountOf(valid, valid[j].extracted_service_name)
               <= CountOf(valid, valid[i].extracted_service_name)
        /\ \A j \in (i + 1)..Len(valid) :
             CountOf(valid, valid[j].extracted_service_name)
               < CountOf(valid, valid[i].extracted_service_name)
  IN valid[best].extracted_service_name

\* max(counts, key=counts.get): the keys of counts are in the order in which
\* the names first appear in valid, and max returns the first maximal one
Majority(valid) ==
  LET best == CHOOSE i \in 1..Len(valid) :
        /\ \A j \in 1..Len(valid) :
             CountOf(valid, valid[j].extracted_service_name)
               <= CountOf(valid, valid[i].extracted_service_name)
        /\ \A j \in 1..(i - 1) :
             CountOf(valid, valid[j].extracted_service_name)
               < CountOf(valid, valid[i].extracted_service_name)
  IN valid[best].extracted_service_name

\* the part of analyze_with_voting after the votes are collected
Reduce(results) ==
  LET valid == Valid(results)
  IN IF valid = <<>> THEN results[1]
     ELSE LET majority == Majority(valid)
              first == CHOOSE i \in 1..Len(valid) :
                /\ valid[i].extracted_service_name = majority
                /\ \A j \in 1..(i - 1) : valid[j].extracted_service_name # majority
          IN valid[first]

\* a retry loop that uses up its attempts whatever the response is
VoteReturns_after_all_attempts(response, attempts_made) ==
  attempts_made + 1 = MaxAttempts

\* analyze_with_retry returns the response of this attempt: either it is
\* valid (return at line 1064) or range(max_attempts) is used up (line 1068)
VoteReturns(response, attempts_made) ==
  IsValid(response) \/ attempts_made + 1 = MaxAttempts

\* One call of llm_client.analyze_text inside analyze_with_retry inside
\* analyze_with_voting, with the code that follows it up to the next call:
\* the answer ends the current vote when it is valid or the attempts are
\* used up, and the last vote ends the extraction.
AnalyzeText(answer) ==
  LET response == answer @@ [call |-> calls + 1]
      returns == VoteReturns(answer, attempt)
      collected == IF returns THEN Append(vote_results, response) ELSE vote_results
  IN /\ result = <<>>
     /\ calls' = calls + 1
     /\ attempt' = IF returns THEN 0 ELSE attempt + 1
     /\ vote_results' = collected
     /\ result' = IF Len(collected) = Votes THEN <<Reduce(collected)>> ELSE <<>>
     /\ UNCHANGED store

AnalyzeTextAct == \E answer \in LLMAnswers : AnalyzeText(answer)

NextVote == AnalyzeTextAct

SpecVote == Init /\ [][NextVote]_vars

\* C10: when at least one vote result is valid, the extraction returns the
\* first valid result that carries the winning name, the winning name being
\* the one most frequent among the valid results and, among equally frequent
\* names, the one whose first valid result comes first; results with an
\* error or failing validation are not counted.
C10_VotingMajority ==
  (result # <<>>) =>
    LET valid == {i \in 1..Len(vote_results) : IsValid(vote_results[i])}
        name(i) == vote_results[i].extracted_service_name
        count(i) == Cardinality({j \in valid : name(j) = name(i)})
        firstOf(i) == CHOOSE j \in valid :
                        name(j) = name(i) /\ \A k \in valid : name(k) = name(i) => j <= k
    IN valid # {} =>
         \E w \in valid :
           /\ result[1] = vote_results[w]
           /\ firstOf(w) = w
           /\ \A i \in valid : count(i) <= count(w)
           /\ \A i \in valid : count(i) = count(w) => w <= firstOf(i)

\* C10 witness: an extraction has returned after a tie between two names,
\* one of the votes being invalid, and the name seen first won
C10_Witness ==
  /\ result # <<>>
  /\ Len(vote_results) = Votes
  /\ IsValid(vote_results[2]) /\ IsValid(vote_results[3])
  /\ ~IsValid(vote_results[1])
  /\ vote_results[2].extracted_service_name # vote_results[3].extracted_service_name
  /\ result[1] = vote_results[2]

\* The extraction under the scheduling of the code: analyze_with_voting is
\* one sequential loop, so a call of the client that can be made is made.
SpecVoteFair == SpecVote /\ WF_vars(NextVote)

\* the number of completion calls vote i made
CallsOfVote(i) ==
  vote_results[i].call - (IF i = 1 THEN 0 ELSE vote_results[i - 1].call)

InitStatus ==
  LET W == CreatedRows(CreatedRows(EmptyStore, <<"subject">>, 1), <<"subject">>, 2)
  IN /\ raw_emails = W.raw
     /\ llm_data = W.llm
     /\ notifications = W.notif
     /\ downtime_events = {}
     /\ notification_impacts = {}
     /\ pending = <<>>
     /\ last = NoCall
     /\ vote_results = <<>>
     /\ attempt = 0
     /\ calls = 0
     /\ result = <<>>
     /\ stats = NoStats
     /\ downtime_stats = <<>>
     /\ registry = SeededRegistry
     /\ sessions = <<>>

\* the extracted fields the model feeds in: every notification type with
\* every summary for a completed extraction without explicit status, and a
\* few extractions that are not completed or carry an explicit status
ExtractedFields ==
  [extracted_service_name : {<<"A", "W", "S">>},
   event_start_time : {EventStart},
   event_end_time : {EventEnd},
   notification_type : NotificationTypeEnum \cup {NoEnum},
   severity : {"high"},
   llm_summary : Summaries,
   processing_status : {"completed"},
   notification_status : {NoEnum}]
  \cup
  [extracted_service_name : {<<"A", "W", "S">>},
   event_start_time : {EventStart},
   event_end_time : {EventEnd},
   notification_type : {"maintenance"},
   severity : {"high"},
   llm_summary : {SummaryPlain},
   processing_status : {"completed", "pending_validation"},
   notification_status : {NoEnum, "triaged"}]

ApplyExtractionAct ==
  \E f \in ExtractedFields :
    Call("ApplyExtraction", 1,
         update_llm_data_extracted_fields(View, 1, f, FALSE), TRUE)

\* the LLM data is not found, or the commit fails
ApplyExtractionFailsAct ==
  \E llm_data_id \in {1, 3}, commit_fails \in BOOLEAN :
    /\ llm_data_id = 3 \/ commit_fails
    /\ Call("ApplyExtraction", llm_data_id,
            update_llm_data_extracted_fields(
              View, llm_data_id,
              [extracted_service_name |-> <<"A", "W", "S">>,
               event_start_time |-> EventStart, event_end_time |-> EventEnd,
               notification_type |-> "outage", severity |-> "high",
               llm_summary |-> SummaryPlain, processing_status |-> "completed",
               notification_status |-> NoEnum],
              commit_fails),
            TRUE)

UpdateStatusAct ==
  \E llm_data_id \in {2, 3}, processing_status \in {"error", "manual_review"},
     commit_fails \in BOOLEAN :
    Call("UpdateStatus", llm_data_id,
         update_llm_data_status(View, llm_data_id, processing_status,
                                <<"f", "a", "i", "l", "e", "d">>, commit_fails),
         FALSE)

UpdateAct ==
  \E notification_id \in {2, 3}, status \in {NoEnum, "archived"},
     commit_fails \in BOOLEAN :
    Call("Update", notification_id,
         update_notification(View, notification_id,
                             [title |-> NoneText, status |-> status,
                              service_name |-> NoneText, severity |-> "low"],
                             commit_fails),
         FALSE)

NextStatus ==
  \/ ApplyExtractionAct
  \/ ApplyExtractionFailsAct
  \/ UpdateStatusAct
  \/ UpdateAct

SpecStatus == InitStatus /\ [][NextStatus]_vars

\* the resolution words of the status table
ResolutionWords ==
  {<<"r", "e", "s", "o", "l", "v", "e", "d">>, <<"f", "i", "x", "e", "d">>,
   <<"r", "e", "s", "t", "o", "r", "e", "d">>,
   <<"c", "o", "m", "p", "l", "e", "t", "e", "d">>,
   <<"n", "o", "r", "m", "a", "l">>}

\* the summary contains one of the resolution words, whatever the case of
\* its letters
SaysResolved(summary) ==
  /\ summary # NoneText
  /\ \E w \in ResolutionWords : \E i \in 1..Len(summary) :
       /\ i + Len(w) - 1 <= Len(summary)
       /\ \A k \in 1..Len(w) : LowerChar(summary[i + k - 1]) = w[k]

\* the parent notification and the LLM data of the extraction just applied
\* through the notification type mapping (processing status completed, no
\* explicit notification status)
TypeMapped(n, l) ==
  /\ last.op = "ApplyExtraction" /\ last.ok
  /\ last.note = "notification type mapping"
  /\ l.id = last.arg
  /\ n.llm_data_id = l.id

IntakeResults == {"no_client", "no_body", "extracted", "llm_error"}

\* One iteration of the loop of main_email_processing_workflow for the
\* email with id email_id: the lookup, the pre-filter (passes), the create
\* (with a database error at `at`) and the status update that follows the
\* extraction (llm).  Each crud call commits on its own.
Intake(W, email_id, passes, at, llm) ==
  IF get_notification_by_original_email_id(W, email_id) # {}
  THEN Outcome(W, "untouched", TRUE, "skipped")
  ELSE IF ~passes
  THEN Outcome(W, "untouched", TRUE, "filtered")
  ELSE
    LET created == create_notification(W, <<"subject">>, email_id, at)
        llm_data_id == NextId(W.llm)
        updated ==
          CASE llm = "no_client" ->
                 update_llm_data_status(
                   created.W, llm_data_id, "manual_review",
                   <<"LLM client not available">>, FALSE)
            [] llm = "no_body" ->
                 update_llm_data_status(
                   created.W, llm_data_id, "error",
                   <<"No text body for LLM analysis">>, FALSE)
            [] llm = "llm_error" ->
                 update_llm_data_status(
                   created.W, llm_data_id, "error", <<"LLM error">>, FALSE)
            [] OTHER ->
                 update_llm_data_extracted_fields(
                   created.W, llm_data_id,
                   [extracted_service_name |-> <<"A", "W", "S">>,
                    event_start_time |-> EventStart, event_end_time |-> EventEnd,
                    notification_type |-> "outage", severity |-> "high",
                    llm_summary |-> SummaryPlain,
                    processing_status |-> "completed",
                    notification_status |-> NoEnum],
                   FALSE)
    IN IF ~created.ok
       THEN Outcome(created.W, created.tx, FALSE, "create_failed")
       ELSE Outcome(updated.W, "commit", TRUE, llm)

IntakeAct ==
  /\ Idle
  /\ \E email_id \in MessageIds, passes \in BOOLEAN,
        at \in CreateFailurePoints, llm \in IntakeResults :
       /\ \/ RoomForNotification(View)
          \/ get_notification_by_original_email_id(View, email_id) # {}
       /\ Call("Intake", email_id, Intake(View, email_id, passes, at, llm), TRUE)

\* create_notification called on its own, with a database error at `at`
CreateCallAct ==
  /\ Idle
  /\ RoomForNotification(View)
  /\ \E email_id \in MessageIds, at \in CreateFailurePoints :
       Call("Create", email_id,
            create_notification(View, <<"subject">>, email_id, at), TRUE)

\* a notification of the store is deleted
DeleteExistingAct ==
  /\ Idle
  /\ \E n \in Ids(View.notif) :
       Call("Delete", n, Delete(Committed, View, n, Null), FALSE)

NextIntake ==
  \/ IntakeAct
  \/ CreateCallAct
  \/ DeleteExistingAct

SpecIntake == Init /\ [][NextIntake]_vars

\* the raw emails and the notifications the store holds for an email id
RawEmailsOf(email_id) ==
  {r \in raw_emails : r.original_email_id_hash = Sha256(email_id)}

NotificationsOf(email_id) ==
  {n \in notifications : \E r \in RawEmailsOf(email_id) : n.raw_email_id = r.id}

\* C1: a Create call that reports failure leaves the store as it was before
\* the call: no raw email, LLM data or notification of the failed call
\* survives.
C1_CreateAtomic ==
  [][(last'.op = "Create" /\ ~last'.ok) => UNCHANGED tables]_vars

\* C3: the store never holds more than one raw email or more than one
\* notification for an email id, and an intake of an email id that already
\* has its notification skips the create and leaves the store as it is, with
\* exactly one notification and one raw email for that id.
C3_IdempotentIntake ==
  /\ [](\A email_id \in MessageIds :
          /\ Cardinality(RawEmailsOf(email_id)) <= 1
          /\ Cardinality(NotificationsOf(email_id)) <= 1)
  /\ [][\A email_id \in MessageIds :
          (/\ last'.op = "Intake"
           /\ last'.arg = email_id
           /\ NotificationsOf(email_id) # {})
            => /\ last'.note = "skipped"
               /\ UNCHANGED tables
               /\ Cardinality(RawEmailsOf(email_id)) = 1
               /\ Cardinality(NotificationsOf(email_id)) = 1]_vars

\* C3 witness: an email id that has its notification was taken in again and
\* skipped
C3_Witness ==
  /\ last.op = "Intake" /\ last.note = "skipped"
  /\ Cardinality(NotificationsOf(last.arg)) = 1
  /\ Cardinality(RawEmailsOf(last.arg)) = 1

\* --------------------------------------------------------- SpecLifecycle
\* The life of the notification aggregates: creates (with database errors
\* and repeated email ids), extractions applied and marked failed, edits,
\* and deletes (with database errors and through the events' cascade).
\* The status handlers are called for the first notification and for ids
\* that resolve to nothing.  Delete calls are recorded in `last`.
LifecycleCreateAct ==
  /\ Idle
  /\ RoomForNotification(View)
  /\ \E email_id \in MessageIds, at \in CreateFailurePoints :
       Call("Create", email_id,
            create_notification(View, <<"subject">>, email_id, at), FALSE)

LifecycleApplyExtractionAct ==
  /\ Idle
  /\ \E llm_data_id \in {1, MaxNotif + 1}, commit_fails \in BOOLEAN :
       Call("ApplyExtraction", llm_data_id,
            update_llm_data_extracted_fields(
              View, llm_data_id,
              [extracted_service_name |-> <<"A", "W", "S">>,
               event_start_time |-> EventStart, event_end_time |-> EventEnd,
               notification_type |-> "info", severity |-> "high",
               llm_summary |-> SummaryRestored,
               processing_status |-> "completed",
               notification_status |-> NoEnum],
              commit_fails),
            FALSE)

MarkExtractionFailedAct ==
  /\ Idle
  /\ \E llm_data_id \in {1, MaxNotif + 1}, commit_fails \in BOOLEAN :
       Call("MarkExtractionFailed", llm_data_id,
            update_llm_data_status(View, llm_data_id, "error",
                                   <<"LLM error">>, commit_fails),
            FALSE)

LifecycleUpdateAct ==
  /\ Idle
  /\ \E notification_id \in {1, MaxNotif + 1}, commit_fails \in BOOLEAN :
       Call("Update", notification_id,
            update_notification(View, notification_id,
                                [title |-> NoneText, status |-> "archived",
                                 service_name |-> NoneText,
                                 severity |-> NoEnum],
                                commit_fails),
            FALSE)

LifecycleOpenEventAct ==
  /\ Idle
  /\ NextId(View.events) <= MaxLifecycleEvents
  /\ \E n \in Ids(View.notif) :
       Call("OpenEvent", n, create_downtime_event(View, 1, n, 1, "high"), FALSE)

NextLifecycle ==
  \/ LifecycleCreateAct
  \/ LifecycleApplyExtractionAct
  \/ MarkExtractionFailedAct
  \/ LifecycleUpdateAct
  \/ LifecycleOpenEventAct
  \/ CloseEventAct
  \/ DeleteAct
  \/ CloseSession
  \/ CommitSession

SpecLifecycle == Init /\ [][NextLifecycle]_vars

\* in the tables W every notification has its raw email and its LLM data,
\* and every raw email and LLM data row belongs to exactly one notification
Aggregates(W) ==
  /\ \A n \in W.notif :
       /\ Cardinality({r \in W.raw : r.id = n.raw_email_id}) = 1
       /\ Cardinality({l \in W.llm : l.id = n.llm_data_id}) = 1
  /\ \A r \in W.raw :
       Cardinality({n \in W.notif : n.raw_email_id = r.id}) = 1
  /\ \A l \in W.llm :
       Cardinality({n \in W.notif : n.llm_data_id = l.id}) = 1

\* C2: in every reachable state every notification references one existing
\* raw email and one existing LLM data row, and every raw email and every
\* LLM data row is referenced by exactly one notification; this holds of the
\* committed store and of what a session has flushed into it.
C2_AggregateInvariant == Aggregates(Committed) /\ Aggregates(View)

\* C2 witness: a notification has been deleted while the first one, with
\* its extraction applied and then edited, is still in the store
C2_Witness ==
  /\ last.op = "Delete" /\ last.ok
  /\ \E n \in notifications : n.id = 1 /\ n.status = "archived"
  /\ \E l \in llm_data : l.id = 1 /\ l.processing_status = "completed"

\* ---------------------------------------------------------- SpecPipeline
\* The loop of main_email_processing_workflow with the extraction spelt out
\* call by call: each unread email is created, analysed by
\* analyze_with_voting and its result applied, and the loop goes on to the
\* next email.  The external services and the dependencies are fixed: the
\* service named 1 is known and internal system 1 depends on it, other names
\* are names of no service.
DefaultLimit == 100

\* what a registry handler returns: the registry it leaves, whether it
\* returned a row (or True), and the id of the row it returned
RegOutcome(R, ok, id, note) == [R |-> R, ok |-> ok, id |-> id, note |-> note]

get_external_service(R, service_id) == {s \in R.services : s.id = service_id}

get_internal_system(R, system_id) == {s \in R.systems : s.id = system_id}

\* a lookup that ignores the case of the letters
get_external_service_by_name_any_case(R, service_name) ==
  {s \in R.services : Lower(s.service_name) = Lower(service_name)}

\* the filter compares the whole name
get_external_service_by_name(R, service_name) ==
  {s \in R.services : s.service_name = service_name}

create_external_service(R, service_name, provider, description) ==
  LET existing_service == get_external_service_by_name(R, service_name)
      id == NextId(R.services)
  IN IF existing_service # {}
     THEN RegOutcome(R, TRUE, (CHOOSE s \in existing_service : TRUE).id, "existing")
     ELSE RegOutcome([R EXCEPT !.services = @ \cup
                        {[id |-> id, service_name |-> service_name,
                          provider |-> provider, description |-> description]}],
                     TRUE, id, "created")

create_internal_system(R, system_name, responsible_contact, description) ==
  LET existing_system == {s \in R.systems : s.system_name = system_name}
      id == NextId(R.systems)
  IN IF existing_system # {}
     THEN RegOutcome(R, TRUE, (CHOOSE s \in existing_system : TRUE).id, "existing")
     ELSE RegOutcome([R EXCEPT !.systems = @ \cup
                        {[id |-> id, system_name |-> system_name,
                          responsible_contact |-> responsible_contact,
                          description |-> description]}],
                     TRUE, id, "created")

\* an update that renames without looking for another row of that name
update_external_service_unchecked(R, service_id, u, commit_fails) ==
  LET found == get_external_service(R, service_id)
      given(field) == u[field] # NoneText
      updated(s) ==
        [field \in DOMAIN s |->
           IF field \in DOMAIN u /\ given(field) THEN u[field] ELSE s[field]]
  IN IF found = {} THEN RegOutcome(R, FALSE, Null, "not_found")
     ELSE IF \A field \in DOMAIN u : ~given(field)
     THEN RegOutcome(R, TRUE, service_id, "no_data")
     ELSE IF commit_fails
     THEN RegOutcome(R, FALSE, Null, "error")
     ELSE RegOutcome([R EXCEPT !.services =
                        {IF s.id = service_id THEN updated(s) ELSE s : s \in @}],
                     TRUE, service_id, "updated")

\* update_external_service; u holds service_name, provider and description,
\* NoneText standing for an argument that is not given
update_external_service(R, service_id, u, commit_fails) ==
  LET found == get_external_service(R, service_id)
      db_external_service == CHOOSE s \in found : TRUE
      given(field) == u[field] # NoneText
      existing_service_with_new_name ==
        {s \in R.services : s.service_name = u.service_name /\ s.id # service_id}
      updated(s) ==
        [field \in DOMAIN s |->
           IF field \in DOMAIN u /\ given(field) THEN u[field] ELSE s[field]]
  IN IF found = {} THEN RegOutcome(R, FALSE, Null, "not_found")
     ELSE IF \A field \in DOMAIN u : ~given(field)
     THEN RegOutcome(R, TRUE, service_id, "no_data")
     ELSE IF /\ given("service_name")
             /\ u.service_name # db_external_service.service_name
             /\ existing_service_with_new_name # {}
     THEN RegOutcome(R, FALSE, Null, "name_conflict")
     ELSE IF commit_fails
     THEN RegOutcome(R, FALSE, Null, "error")
     ELSE RegOutcome([R EXCEPT !.services =
                        {IF s.id = service_id THEN updated(s) ELSE s : s \in @}],
                     TRUE, service_id, "updated")

\* update_internal_system; u holds system_name, responsible_contact and
\* description
update_internal_system(R, system_id, u, commit_fails) ==
  LET found == get_internal_system(R, system_id)
      db_internal_system == CHOOSE s \in found : TRUE
      given(field) == u[field] # NoneText
      existing_system_with_new_name ==
        {s \in R.systems : s.system_name = u.system_name /\ s.id # system_id}
      updated(s) ==
        [field \in DOMAIN s |->
           IF field \in DOMAIN u /\ given(field) THEN u[field] ELSE s[field]]
  IN IF found = {} THEN RegOutcome(R, FALSE, Null, "not_found")
     ELSE IF \A field \in DOMAIN u : ~given(field)
     THEN RegOutcome(R, TRUE, system_id, "no_data")
     ELSE IF /\ given("system_name")
             /\ u.system_name # db_internal_system.system_name
             /\ existing_system_with_new_name # {}
     THEN RegOutcome(R, FALSE, Null, "name_conflict")
     ELSE IF commit_fails
     THEN RegOutcome(R, FALSE, Null, "error")
     ELSE RegOutcome([R EXCEPT !.systems =
                        {IF s.id = system_id THEN updated(s) ELSE s : s \in @}],
                     TRUE, system_id, "updated")

\* a delete that does not look at the dependencies of the service
delete_external_service_unguarded(R, service_id, commit_fails) ==
  IF get_external_service(R, service_id) = {}
  THEN RegOutcome(R, FALSE, Null, "not_found")
  ELSE IF commit_fails
  THEN RegOutcome(R, FALSE, Null, "error")
  ELSE RegOutcome([R EXCEPT !.services = {s \in @ : s.id # service_id}],
                  TRUE, Null, "deleted")

\* delete_external_service
delete_external_service(R, service_id, commit_fails) ==
  IF get_external_service(R, service_id) = {}
  THEN RegOutcome(R, FALSE, Null, "not_found")
  ELSE IF \E d \in R.deps : d.external_service_id = service_id
  THEN RegOutcome(R, FALSE, Null, "has_dependencies")
  ELSE IF commit_fails
  THEN RegOutcome(R, FALSE, Null, "error")
  ELSE RegOutcome([R EXCEPT !.services = {s \in @ : s.id # service_id}],
                  TRUE, Null, "deleted")

\* delete_internal_system
delete_internal_system(R, system_id, commit_fails) ==
  IF get_internal_system(R, system_id) = {}
  THEN RegOutcome(R, FALSE, Null, "not_found")
  ELSE IF \E d \in R.deps : d.internal_system_id = system_id
  THEN RegOutcome(R, FALSE, Null, "has_dependencies")
  ELSE IF commit_fails
  THEN RegOutcome(R, FALSE, Null, "error")
  ELSE RegOutcome([R EXCEPT !.systems = {s \in @ : s.id # system_id}],
                  TRUE, Null, "deleted")

\* a create that does not look for an existing dependency of the pair
create_dependency_unchecked(R, internal_system_id, external_service_id, dependency_description) ==
  IF get_internal_system(R, internal_system_id) = {}
  THEN RegOutcome(R, FALSE, Null, "no_system")
  ELSE IF get_external_service(R, external_service_id) = {}
  THEN RegOutcome(R, FALSE, Null, "no_service")
  ELSE RegOutcome([R EXCEPT !.deps = @ \cup
                     {[id |-> NextId(R.deps),
                       internal_system_id |-> internal_system_id,
                       external_service_id |-> external_service_id,
                       dependency_description |-> dependency_description]}],
                  TRUE, NextId(R.deps), "created")

\* create_dependency
create_dependency(R, internal_system_id, external_service_id, dependency_description) ==
  LET existing_dependency ==
        {d \in R.deps : /\ d.internal_system_id = internal_system_id
                        /\ d.external_service_id = external_service_id}
      id == NextId(R.deps)
  IN IF get_internal_system(R, internal_system_id) = {}
     THEN RegOutcome(R, FALSE, Null, "no_system")
     ELSE IF get_external_service(R, external_service_id) = {}
     THEN RegOutcome(R, FALSE, Null, "no_service")
     ELSE IF existing_dependency # {}
     THEN RegOutcome(R, TRUE, (CHOOSE d \in existing_dependency : TRUE).id, "existing")
     ELSE RegOutcome([R EXCEPT !.deps = @ \cup
                        {[id |-> id,
                          internal_system_id |-> internal_system_id,
                          external_service_id |-> external_service_id,
                          dependency_description |-> dependency_description]}],
                     TRUE, id, "created")

\* delete_dependency
delete_dependency(R, dependency_id, commit_fails) ==
  IF \A d \in R.deps : d.id # dependency_id
  THEN RegOutcome(R, FALSE, Null, "not_found")
  ELSE IF commit_fails
  THEN RegOutcome(R, FALSE, Null, "error")
  ELSE RegOutcome([R EXCEPT !.deps = {d \in @ : d.id # dependency_id}],
                  TRUE, Null, "deleted")

\* get_dependencies_for_external_service: the first `limit` dependencies of
\* the service in id order (skip 0)
get_dependencies_for_external_service(R, external_service_id, limit) ==
  LET of_service == {d \in R.deps : d.external_service_id = external_service_id}
  IN IF get_external_service(R, external_service_id) = {}
     THEN {}
     ELSE {d \in of_service :
             Cardinality({e \in of_service : e.id < d.id}) < limit}

\* the internal systems analyze_notification_impacts finds for a service name
DependentSystems(R, service_name) ==
  LET service == get_external_service_by_name(R, service_name)
  IN IF service_name \in {NoneText, NoText} \/ service = {}
     THEN {}
     ELSE {dep.internal_system_id :
             dep \in get_dependencies_for_external_service(
                       R, (CHOOSE s \in service : TRUE).id, DefaultLimit)}

\* the text of an extracted service name
ServiceNameText(name) == IF name = Null THEN NoneText ELSE <<"S", ToString(name)>>

\* for dep in deps: create_notification_impact(db, notification_id, ...)
\* Each call of the loop reads and writes the impact of its own system only,
\* so the loop leaves the rows that the single calls leave, taken together.
CreateImpacts(W, notification_id, systems) ==
  [W EXCEPT !.impacts =
     @ \cup UNION {create_notification_impact(W, notification_id,
                                              internal_system_id).W.impacts :
                     internal_system_id \in systems}]

\* analyze_notification_impacts
\* analyze_notification_impacts: the tables it leaves
analyze_notification_impacts(W, R, notification_id, service_name) ==
  CreateImpacts(W, notification_id, DependentSystems(R, service_name))

\* analyze_notification_impacts: the impacts it returns
impacts_returned(R, notification_id, service_name) ==
  {[notification_id |-> notification_id, internal_system_id |-> system] :
     system \in DependentSystems(R, service_name)}

\* parse_llm_notification_type: a type of the enum (in any case) is returned;
\* for any other string the dict `maps` is built, which names
\* NotificationTypeEnum.RESOLVED, a member the enum does not have
parse_llm_notification_type(type_str) ==
  IF type_str = NoEnum THEN "unknown"
  ELSE IF LowerWord(type_str) \in NotificationTypeEnum THEN LowerWord(type_str)
  ELSE "AttributeError"

\* parse_llm_severity
parse_llm_severity(severity_str) ==
  IF severity_str = NoEnum THEN "unknown" ELSE LowerWord(severity_str)

\* event_summary of a response: a response with keys missing has none
event_summary(response) ==
  IF response.keys = "complete" THEN SummaryPlain ELSE NoneText

\* a caller that tells an error by the error field or by failed validation
IsSuccess_validated(llm_response_dict) == IsValid(llm_response_dict)

\* llm_response_dict and not llm_response_dict.get("error")
IsSuccess(llm_response_dict) == ~llm_response_dict.error

\* lines 1236-1299: what the loop does with the result of the extraction
ApplyResult(W, notification_id, llm_data_id, llm_response_dict) ==
  IF IsSuccess(llm_response_dict)
  THEN IF parse_llm_notification_type(llm_response_dict.notification_type)
            = "AttributeError"
       THEN \* except Exception at line 1300
            [update_llm_data_status(W, llm_data_id, "error",
                                    <<"exception">>, FALSE)
               EXCEPT !.note = "raised"]
       ELSE LET applied ==
                  update_llm_data_extracted_fields(
                    W, llm_data_id,
                    [extracted_service_name |->
                       ServiceNameText(llm_response_dict.extracted_service_name),
                     \* parse_llm_datetime of the response's null times
                     event_start_time |-> NoneText,
                     event_end_time |-> NoneText,
                     notification_type |->
                       parse_llm_notification_type(llm_response_dict.notification_type),
                     severity |-> parse_llm_severity(llm_response_dict.severity_level),
                     llm_summary |-> event_summary(llm_response_dict),
                     processing_status |-> "completed",
                     notification_status |-> NoEnum],
                    FALSE)
            IN Outcome(analyze_notification_impacts(
                         applied.W, registry, notification_id,
                         ServiceNameText(llm_response_dict.extracted_service_name)),
                       "commit", TRUE, "completed")
  ELSE [update_llm_data_status(W, llm_data_id, "error", <<"LLM error">>, FALSE)
          EXCEPT !.note = "llm_error"]

\* a notification was created for the email of this iteration and its
\* extraction has not been applied yet
InProgress == last.op = "Create" /\ last.ok

\* the notification of this iteration and its LLM data
CurrentNotification ==
  CHOOSE n \in View.notif :
    \E r \in View.raw : /\ r.id = n.raw_email_id
                        /\ r.original_email_id_hash = Sha256(last.arg)

\* the next unread email: the first id that has no notification yet
NextEmail(W) ==
  CHOOSE email_id \in MessageIds :
    /\ get_notification_by_original_email_id(W, email_id) = {}
    /\ \A other \in MessageIds :
         get_notification_by_original_email_id(W, other) = {} => email_id <= other

\* lines 1153-1194: the next email is created
PipelineCreateAct ==
  /\ Idle
  /\ last = NoCall
  /\ RoomForNotification(View)
  /\ \E email_id \in MessageIds :
       get_notification_by_original_email_id(View, email_id) = {}
  /\ \E at \in CreateFailurePoints :
       Call("Create", NextEmail(View),
            create_notification(View, <<"subject">>, NextEmail(View), at), TRUE)

\* lines 1196-1219: no client, or no text body
PipelineNoAnalysisAct ==
  /\ Idle
  /\ InProgress
  /\ calls = 0
  /\ \/ Call("MarkManualReview", CurrentNotification.llm_data_id,
             [update_llm_data_status(View, CurrentNotification.llm_data_id,
                "manual_review", <<"LLM client not available">>, FALSE)
                EXCEPT !.note = "no_client"], TRUE)
     \/ Call("MarkExtractionFailed", CurrentNotification.llm_data_id,
             [update_llm_data_status(View, CurrentNotification.llm_data_id,
                "error", <<"No text body for LLM analysis">>, FALSE)
                EXCEPT !.note = "no_body"], TRUE)

\* line 1058 inside lines 1228-1235: the client answers
PipelineAnalyzeAct ==
  /\ Idle
  /\ InProgress
  /\ AnalyzeTextAct

\* the client raises instead of answering: except Exception at line 1300
PipelineRaisesAct ==
  /\ Idle
  /\ InProgress
  /\ result = <<>>
  /\ Call("MarkExtractionFailed", CurrentNotification.llm_data_id,
          [update_llm_data_status(View, CurrentNotification.llm_data_id,
             "error", <<"exception">>, FALSE)
             EXCEPT !.note = "raised"], TRUE)

\* lines 1236-1299: the extraction has returned and its result is applied
PipelineResultAct ==
  /\ Idle
  /\ InProgress
  /\ result # <<>>
  /\ LET outcome == ApplyResult(View, CurrentNotification.id,
                                CurrentNotification.llm_data_id, result[1])
     IN Call(IF outcome.note = "completed"
             THEN "ApplyExtraction" ELSE "MarkExtractionFailed",
             CurrentNotification.llm_data_id, outcome, TRUE)

\* the for loop goes on to the next email
PipelineNextEmailAct ==
  /\ Idle
  /\ last # NoCall
  /\ ~InProgress
  /\ last' = NoCall
  /\ vote_results' = <<>>
  /\ attempt' = 0
  /\ calls' = 0
  /\ result' = <<>>
  /\ UNCHANGED <<tables, pending, stats, downtime_stats, registry, sessions>>

NextPipeline ==
  \/ PipelineCreateAct
  \/ PipelineNoAnalysisAct
  \/ PipelineAnalyzeAct
  \/ PipelineRaisesAct
  \/ PipelineResultAct
  \/ PipelineNextEmailAct

SpecPipeline == Init /\ [][NextPipeline]_vars

\* the LLM data and the notification the last recorded call was about
LastLLMData == CHOOSE l \in llm_data : l.id = last.arg

LastNotification == CHOOSE n \in notifications : n.llm_data_id = last.arg

\* the extraction of this iteration has been applied or marked as failed
Processed == last.op \in {"ApplyExtraction", "MarkExtractionFailed"}

\* every vote of the returned extraction failed validation or had an error
AllVotesInvalid ==
  /\ result # <<>>
  /\ \A i \in 1..Len(vote_results) : ~IsValid(vote_results[i])

\* C11: when every vote fails validation after its retries, the extraction
\* returns the first vote's raw result and the pipeline ends with the LLM
\* data in status error and the notification in status error_processing,
\* never completed, also when the result carries no error field.
C11_VotingFallback ==
  AllVotesInvalid =>
    /\ result[1] = vote_results[1]
    /\ Processed =>
         /\ LastLLMData.processing_status = "error"
         /\ LastNotification.status = "error_processing"

\* the text-completion call of this iteration raised, or the extraction
\* returned a result that carries an error
ExtractionErred ==
  /\ Processed
  /\ \/ result = <<>> /\ last.note = "raised"
     \/ result # <<>> /\ result[1].error

\* C12: when the text-completion call raises or the extraction returns an
\* error result, the iteration ends with the LLM data in status error with a
\* message recorded, the notification in status error_processing, no impact
\* of that notification, nothing left uncommitted, and the loop can go on to
\* the next email.
C12_ExtractionErrorsRecorded ==
  ExtractionErred =>
    /\ LastLLMData.processing_status = "error"
    /\ Truthy(LastLLMData.error_message)
    /\ LastNotification.status = "error_processing"
    /\ \A i \in notification_impacts : i.notification_id # LastNotification.id
    /\ pending = <<>>
    /\ ENABLED PipelineNextEmailAct

\* C12 witness: the second email's extraction returned an error result after
\* the first email's extraction was completed with an impact
C12_Witness ==
  /\ ExtractionErred
  /\ result # <<>>
  /\ LastNotification.id = 2
  /\ \E i \in notification_impacts : i.notification_id = 1

\* --------------------------------------------------------- SpecReconcile
\* 1. LLMData rows no notification refers to
orphaned_llm_data_records(W) ==
  {l \in W.llm : \A n \in W.notif : n.llm_data_id # l.id}

\* a check that takes no raw email for an orphan
orphaned_raw_email_records_none(W) == {}

\* 2. RawEmail rows no notification refers to
orphaned_raw_email_records(W) ==
  {r \in W.raw : \A n \in W.notif : n.raw_email_id # r.id}

\* 3. the ids of the notifications whose LLM data is missing, then of those
\* whose raw email is missing and that are not in the list yet
incomplete_notifications(W) ==
  LET no_llm == {n \in W.notif : n.llm_data_id \notin Ids(W.llm)}
      no_raw == {n \in W.notif : n.raw_email_id \notin Ids(W.raw)} \ no_llm
      ids(rows) == [i \in 1..Len(rows) |-> rows[i].id]
  IN ids(InIdOrder(no_llm)) \o ids(InIdOrder(no_raw))

\* 4. impacts of notifications that do not exist
orphaned_impacts(W) ==
  {i \in W.impacts : i.notification_id \notin Ids(W.notif)}

\* for notification in incomplete_notifications:
\*     delete_notification(db, notification.id, internal_call=True)
RECURSIVE DeleteIncomplete(_, _, _, _)
DeleteIncomplete(base, s, ids, failing) ==
  IF ids = <<>> THEN s
  ELSE DeleteIncomplete(base, delete_notification(base, s, Head(ids), failing),
                        Tail(ids), failing)

\* the statements of check_and_fix_data_consistency at which a database
\* error may be raised ("none": no error)
CheckFailurePoints ==
  {"none", "llm_query", "raw_query", "notification_query", "impact_query",
   "commit"}

\* the steps that have run when the error at `at` is raised
StepsRun(at) ==
  CASE at = "llm_query" -> 0
    [] at = "raw_query" -> 1
    [] at = "notification_query" -> 2
    [] at = "impact_query" -> 3
    [] OTHER -> 4

\* a savepoint whose commit passes although the session was rolled back
SavepointCommit_on_closed(closed) == TRUE

\* nested_transaction.commit(): raises when a db.rollback() has ended the
\* savepoint (TRUE: it commits)
SavepointCommit(closed) == ~closed

\* check_and_fix_data_consistency on a session whose working copy is W over
\* the committed store base; `at` is the statement that raises, `failing` the
\* notification whose delete_notification call meets a database error.  The
\* result holds the outcome for the store and the stats returned.
check_and_fix_data_consistency(base, W, at, failing) ==
  LET llm == orphaned_llm_data_records(W)
      raw == orphaned_raw_email_records(W)
      incomplete == incomplete_notifications(W)
      W2 == [W EXCEPT !.llm = @ \ llm, !.raw = @ \ raw]
      s3 == IF StepsRun(at) >= 3
            THEN DeleteIncomplete(base, [W |-> W2, closed |-> FALSE, ret |-> TRUE],
                                  incomplete, failing)
            ELSE [W |-> W2, closed |-> FALSE, ret |-> TRUE]
      impacts == orphaned_impacts(s3.W)
      W4 == [s3.W EXCEPT !.impacts = @ \ impacts]
      count(step, rows) == IF StepsRun(at) >= step THEN Cardinality(rows) ELSE 0
      found == [orphaned_llm_data |-> count(1, llm),
                orphaned_raw_email |-> count(2, raw),
                incomplete_notifications |->
                  IF StepsRun(at) >= 3 THEN Len(incomplete) ELSE 0,
                orphaned_impacts |-> count(4, impacts),
                fixed_issues |->
                  count(1, llm) + count(2, raw)
                  + (IF StepsRun(at) >= 3 THEN Len(incomplete) ELSE 0)
                  + count(4, impacts),
                errors |-> 0]
  IN IF StepsRun(at) < 4
     THEN \* the inner except rolls the savepoint back, counts the error and
          \* raises again (a savepoint ended by a rollback raises there
          \* instead); the outer except rolls back and counts
          [outcome |-> Outcome(base, "rollback", FALSE, at),
           stats |-> [found EXCEPT !.errors = IF s3.closed THEN 1 ELSE 2]]
     ELSE IF ~SavepointCommit(s3.closed)
     THEN \* nested_transaction.commit() and nested_transaction.rollback()
          \* raise; the outer except rolls back and counts
          [outcome |-> Outcome(base, "rollback", FALSE, "delete"),
           stats |-> [found EXCEPT !.errors = 1]]
     ELSE IF at = "commit"
     THEN [outcome |-> Outcome(base, "rollback", FALSE, at),
           stats |-> [found EXCEPT !.errors = 1]]
     ELSE [outcome |-> Outcome(W4, "commit", TRUE,
                               IF s3.closed THEN "delete" ELSE "none"),
           stats |-> found]

\* the notifications whose delete a check of W reaches
CheckFaults(W) ==
  LET ids == incomplete_notifications(W)
  IN {Null} \cup Reached(W, {ids[i] : i \in 1..Len(ids)})

\* the stats of the last check are with its caller
Returned == last.op # "RunCheck"

\* RunCheck
RunCheckAct ==
  /\ Idle
  /\ Returned
  /\ \E at \in CheckFailurePoints, failing \in CheckFaults(View) :
       /\ failing # Null => at = "none"
       /\ \E run \in {check_and_fix_data_consistency(Committed, View, at, failing)} :
             /\ raw_emails' = run.outcome.W.raw
             /\ llm_data' = run.outcome.W.llm
             /\ notifications' = run.outcome.W.notif
             /\ downtime_events' = run.outcome.W.events
             /\ notification_impacts' = run.outcome.W.impacts
             /\ pending' = <<>>
             /\ last' = [op |-> "RunCheck", arg |-> Null,
                         ok |-> run.outcome.ok, note |-> run.outcome.note]
             /\ stats' = run.stats
             /\ downtime_stats' = <<>>
             /\ UNCHANGED <<registry, sessions>>
             /\ UNCHANGED extraction

\* the rows that are missing from the aggregates created so far: each
\* create adds one row to each of the three tables
MissingRows(W) ==
  LET created == Max({0} \cup Ids(W.raw) \cup Ids(W.llm) \cup Ids(W.notif))
  IN 3 * created
     - Cardinality(W.raw) - Cardinality(W.llm) - Cardinality(W.notif)

\* the handlers build the store while no row of it is missing
Intact == MissingRows(View) = 0

\* the outage is reported by the oldest notification of the store
ReconcileOpenEventAct ==
  /\ Idle
  /\ Returned
  /\ Intact
  /\ NextId(View.events) <= MaxLifecycleEvents
  /\ View.notif # {}
  /\ Call("OpenEvent", Null,
          create_downtime_event(
            View, 1, CHOOSE n \in Ids(View.notif) : \A m \in Ids(View.notif) : n <= m,
            1, "high"),
          FALSE)

\* an open event is closed by a notification of the store
ReconcileCloseEventAct ==
  /\ Idle
  /\ Returned
  /\ Intact
  /\ \E e \in {x.id : x \in {y \in View.events : y.end_notification_id = Null}},
        n \in Ids(View.notif) :
       Call("CloseEvent", e, close_downtime_event(View, e, n, 2), FALSE)

\* Drift: a row is lost outside the handlers (the store does not enforce the
\* references between the tables)
DriftAct ==
  /\ Idle
  /\ Returned
  /\ MissingRows(View) < MaxDrift
  /\ \/ \E l \in llm_data : llm_data' = llm_data \ {l}
          /\ UNCHANGED <<raw_emails, notifications>>
     \/ \E r \in raw_emails : raw_emails' = raw_emails \ {r}
          /\ UNCHANGED <<llm_data, notifications>>
     \/ \E n \in notifications : notifications' = notifications \ {n}
          /\ UNCHANGED <<raw_emails, llm_data>>
  /\ last' = NoCall
  /\ stats' = NoStats
  /\ downtime_stats' = <<>>
  /\ UNCHANGED <<registry, sessions>>
  /\ UNCHANGED <<downtime_events, notification_impacts, pending, extraction>>

\* the caller has the stats of the check; the store goes on from there
ReturnAct ==
  /\ ~Returned
  /\ last' = NoCall
  /\ stats' = NoStats
  /\ downtime_stats' = <<>>
  /\ UNCHANGED <<registry, sessions>>
  /\ UNCHANGED <<tables, pending, extraction>>

NextReconcile ==
  \/ Returned /\ Intact /\ CreateAct
  \/ Returned /\ Intact /\ CreateImpactAct
  \/ ReconcileOpenEventAct
  \/ ReconcileCloseEventAct
  \/ DriftAct
  \/ RunCheckAct
  \/ ReturnAct

SpecReconcile == Init /\ [][NextReconcile]_vars

\* the four kinds of inconsistency a check looks for, counted in the store
Inconsistencies ==
  [orphaned_llm_data |->
     Cardinality({l \in llm_data :
                    ~\E n \in notifications : n.llm_data_id = l.id}),
   orphaned_raw_email |->
     Cardinality({r \in raw_emails :
                    ~\E n \in notifications : n.raw_email_id = r.id}),
   incomplete_notifications |->
     Cardinality({n \in notifications :
                    \/ ~\E l \in llm_data : l.id = n.llm_data_id
                    \/ ~\E r \in raw_emails : r.id = n.raw_email_id}),
   orphaned_impacts |->
     Cardinality({i \in notification_impacts :
                    ~\E n \in notifications : n.id = i.notification_id})]

NoInconsistencies ==
  [orphaned_llm_data |-> 0, orphaned_raw_email |-> 0,
   incomplete_notifications |-> 0, orphaned_impacts |-> 0]

\* a check has just completed without error
CheckCompleted == last.op = "RunCheck" /\ last.ok

\* C14: a RunCheck that completes without error leaves no orphaned LLM data,
\* no orphaned raw email, no notification with a missing sub-record and no
\* impact of a missing notification, and has reported in each counter the
\* number of them the store held; a second RunCheck right after it reports
\* zero in every category and changes nothing.
C14_ReconcilerFixpoint ==
  /\ [](CheckCompleted =>
          /\ Inconsistencies = NoInconsistencies
          /\ LET again == check_and_fix_data_consistency(
                            Committed, Committed, "none", Null)
             IN /\ again.stats = NoStats
                /\ again.outcome.ok
                /\ again.outcome.W = Committed)
  /\ [][(last'.op = "RunCheck" /\ last'.ok) =>
          /\ stats'.orphaned_llm_data = Inconsistencies.orphaned_llm_data
          /\ stats'.orphaned_raw_email = Inconsistencies.orphaned_raw_email
          /\ stats'.incomplete_notifications
               = Inconsistencies.incomplete_notifications
          /\ stats'.orphaned_impacts = Inconsistencies.orphaned_impacts
          /\ stats'.errors = 0]_vars

\* C14 witness: a check has completed that found an orphaned LLM data row, an
\* orphaned raw email, an incomplete notification and an orphaned impact
C14_Witness ==
  /\ CheckCompleted
  /\ stats.orphaned_llm_data >= 1
  /\ stats.orphaned_raw_email >= 1
  /\ stats.incomplete_notifications >= 1
  /\ stats.orphaned_impacts >= 1

\* C15: a RunCheck in which a step raises, the delete of an incomplete
\* notification included, repairs nothing: the store after the run is the
\* store before it, nothing is left uncommitted, and the stats returned have
\* a non-zero errors counter.
C15_ReconcilerAtomic ==
  [][(last'.op = "RunCheck" /\ last'.note # "none") =>
       /\ UNCHANGED tables
       /\ pending' = <<>>
       /\ stats'.errors > 0]_vars

\* C15 witness: a check found an incomplete notification, the delete of it
\* met a database error, and the check returned with an error counted
C15_Witness ==
  /\ last.op = "RunCheck" /\ last.note = "delete"
  /\ stats.incomplete_notifications >= 1
  /\ stats.errors = 1
  /\ incomplete_notifications(Committed) # <<>>

\* C17: when the pipeline completes the extraction of an outage-type
\* notification for a known external service, that service has an open
\* downtime event afterwards: the one it had, or one opened with that
\* notification as start reference.
C17_PipelineTracksDowntime ==
  (/\ last.op = "ApplyExtraction"
   /\ LastLLMData.notification_type = "outage"
   /\ DependentSystems(registry, ServiceNameText(1)) # {}
   /\ LastLLMData.extracted_service_name = ServiceNameText(1))
    => \E e \in downtime_events :
         /\ e.end_time = Null
         /\ \/ e.start_notification_id = LastNotification.id
            \/ e.start_notification_id < LastNotification.id

\* ------------------------------------------------------ downtime statistics
\* Times are seconds on one clock; every time is positive, so none is Null.
DowntimeServices == {1, 2}
StartTimes == {60, 150}
\* 30 s, 1.5 min, 60 min and 1200 min
Durations == {30, 90, 3600, 72000}
\* the values datetime.now() takes, both later than every start time
CurrentTimes == {200, 72200}

\* DowntimeEvent.duration_minutes: the length of the event in whole minutes,
\* up to `now` while the event is open
duration_minutes(event, now) ==
  IF event.end_time # Null
  THEN (event.end_time - event.start_time) \div 60
  ELSE (now - event.start_time) \div 60

\* an open event counted as lasting no time
duration_seconds_closed_only(event, current_time) ==
  IF event.end_time # Null
  THEN event.end_time - event.start_time
  ELSE 0

\* duration_seconds in the loop of get_average_downtime_by_service
duration_seconds(event, current_time) ==
  IF event.end_time # Null
  THEN event.end_time - event.start_time
  ELSE current_time - event.start_time

RECURSIVE total_seconds(_, _)
total_seconds(events, current_time) ==
  IF events = {}
  THEN 0
  ELSE LET event == CHOOSE e \in events : TRUE
       IN duration_seconds(event, current_time)
            + total_seconds(events \ {event}, current_time)

\* the dictionary service_data after the loop over all events: an entry for
\* every service that has an event; only events with a start time count
service_data(W, current_time) ==
  [svc_id \in {e.external_service_id : e \in W.events} |->
     LET counted == {e \in W.events : /\ e.external_service_id = svc_id
                                      /\ e.start_time # Null}
         ongoing == {e \in counted : e.end_time = Null}
     IN [total_seconds |-> total_seconds(counted, current_time),
         count |-> Cardinality(counted),
         ongoing_count |-> Cardinality(ongoing),
         has_ongoing |-> ongoing # {}]]

\* round(total_seconds / 60 / count, 2), in hundredths of a minute
Round2(seconds, count) == (2 * 100 * seconds + 60 * count) \div (2 * 60 * count)

\* round(random.uniform(30, 480), 2), in hundredths of a minute: the two ends
\* of the range and a value between them
RandomUniform == {3000, 25500, 48000}

\* the values average_minutes can take for one entry of service_data
avg_minutes(data) ==
  IF data.total_seconds > 1000 * 60 * data.count
  THEN RandomUniform
  ELSE {Round2(data.total_seconds, data.count)}

\* get_average_downtime_by_service: every list the call can return, each as
\* the set of its entries, together with the service_data it was built from
get_average_downtime_by_service(W, current_time) ==
  LET data == service_data(W, current_time)
      listed == {svc_id \in DOMAIN data : data[svc_id].count > 0}
      entries(svc_id) ==
        {[service_id |-> svc_id,
          average_minutes |-> avg,
          event_count |-> data[svc_id].count,
          ongoing_count |-> data[svc_id].ongoing_count,
          has_ongoing |-> data[svc_id].has_ongoing] : avg \in avg_minutes(data[svc_id])}
  IN {[service_data |-> data, stats |-> {choice[svc_id] : svc_id \in listed}] :
        choice \in {f \in [listed -> UNION {entries(svc_id) : svc_id \in listed}] :
                      \A svc_id \in listed : f[svc_id] \in entries(svc_id)}}

\* OpenEvent(service, notification 1, start): the id of the new event is kept
DowntimeOpen(external_service_id, start_time) ==
  /\ Idle
  /\ NextId(View.events) <= MaxEvents
  /\ Call("OpenEvent", NextId(View.events),
          create_downtime_event(View, external_service_id, 1, start_time, "high"),
          TRUE)

DowntimeOpenAct ==
  \E external_service_id \in DowntimeServices, start_time \in StartTimes :
    DowntimeOpen(external_service_id, start_time)

\* CloseEvent(event, notification 2, end) of an open event, d seconds after
\* its start
DowntimeClose(event, d) ==
  /\ Idle
  /\ event \in View.events
  /\ event.end_time = Null
  /\ Call("CloseEvent", event.id,
          close_downtime_event(View, event.id, 2, event.start_time + d), TRUE)

DowntimeCloseAct ==
  \E event \in View.events, d \in Durations : DowntimeClose(event, d)

\* one call of get_average_downtime_by_service at time current_time: it only
\* reads
DowntimeStatsAct ==
  /\ Idle
  /\ \E current_time \in CurrentTimes :
       \E returned \in get_average_downtime_by_service(View, current_time) :
         /\ downtime_stats' = <<returned>>
         /\ UNCHANGED <<registry, sessions>>
         /\ last' = [op |-> "DowntimeStats", arg |-> current_time,
                     ok |-> TRUE, note |-> ""]
  /\ stats' = NoStats
  /\ UNCHANGED <<tables, pending, extraction>>

NextDowntime ==
  \/ DowntimeOpenAct
  \/ DowntimeCloseAct
  \/ DowntimeStatsAct

SpecDowntime == InitStatus /\ [][NextDowntime]_vars

EventById(events, id) == CHOOSE e \in events : e.id = id

\* C18: an event opened with start T has null end time and end notification
\* until it is closed; closed with end T + d and an end notification it keeps
\* start T, has end T + d and that notification, and its duration_minutes is
\* d in whole minutes (60 for d = 60 minutes).
C18_DowntimeDuration ==
  [][/\ \A external_service_id \in DowntimeServices, start_time \in StartTimes :
          DowntimeOpen(external_service_id, start_time)
            => LET opened == EventById(downtime_events', last'.arg)
               IN /\ opened \notin downtime_events
                  /\ opened.start_time = start_time
                  /\ opened.end_time = Null
                  /\ opened.end_notification_id = Null
     /\ \A event \in downtime_events :
          /\ (event.end_time = Null /\ ~(last'.op = "CloseEvent" /\ last'.arg = event.id))
               => event \in downtime_events'
          /\ \A d \in Durations :
               DowntimeClose(event, d)
                 => LET closed == EventById(downtime_events', event.id)
                    IN /\ closed.start_time = event.start_time
                       /\ closed.end_time = event.start_time + d
                       /\ closed.end_notification_id = 2
                       /\ \A now \in CurrentTimes :
                            duration_minutes(closed, now) * 60 \in (d - 59)..d]_vars

C18_Witness ==
  /\ last.op = "CloseEvent"
  /\ \E e \in downtime_events :
       /\ e.id = last.arg
       /\ e.end_time = e.start_time + 3600
       /\ e.end_notification_id = 2
       /\ duration_minutes(e, 200) = 60

\* the events of a service
EventsOf(svc_id) == {e \in downtime_events : e.external_service_id = svc_id}

RECURSIVE SecondsOf(_, _)
SecondsOf(events, now) ==
  IF events = {}
  THEN 0
  ELSE LET e == CHOOSE x \in events : TRUE
       IN (IF e.end_time = Null THEN now - e.start_time ELSE e.end_time - e.start_time)
            + SecondsOf(events \ {e}, now)

\* C19: for every set of events the statistics list each service that has an
\* event once, with event_count the number of its events and average_minutes
\* the sum of their durations divided by event_count, in minutes to two
\* decimals, whatever the size of the average.
C19_AverageDowntime ==
  downtime_stats # <<>> =>
    LET returned == downtime_stats[1].stats
    IN /\ {stat.service_id : stat \in returned}
            = {e.external_service_id : e \in downtime_events}
       /\ \A stat \in returned :
            /\ stat.event_count = Cardinality(EventsOf(stat.service_id))
            /\ LET seconds == SecondsOf(EventsOf(stat.service_id), last.arg)
                   hundredths == stat.average_minutes
               IN \* |average - seconds / 60 / event_count| <= 0.005
                  /\ (2 * hundredths - 1) * 60 * stat.event_count <= 200 * seconds
                  /\ 200 * seconds <= (2 * hundredths + 1) * 60 * stat.event_count

\* C20: in the statistics of a service ongoing_count is the number of its
\* events with null end time, has_ongoing holds exactly when ongoing_count is
\* at least 1, ongoing_count is at most event_count, and an event never closed
\* contributes (now - start) to the total.
C20_OngoingFlags ==
  downtime_stats # <<>> =>
    /\ \A stat \in downtime_stats[1].stats :
         /\ stat.ongoing_count
              = Cardinality({e \in EventsOf(stat.service_id) : e.end_time = Null})
         /\ stat.has_ongoing <=> stat.ongoing_count >= 1
         /\ stat.ongoing_count <= stat.event_count
    /\ \A svc_id \in DOMAIN downtime_stats[1].service_data :
         downtime_stats[1].service_data[svc_id].total_seconds
           = SecondsOf(EventsOf(svc_id), last.arg)

C20_Witness ==
  /\ downtime_stats # <<>>
  /\ \E stat \in downtime_stats[1].stats :
       /\ stat.event_count = 2
       /\ stat.ongoing_count = 1
       /\ stat.has_ongoing
       /\ \E e \in EventsOf(stat.service_id) :
            /\ e.end_time = Null
            /\ downtime_stats[1].service_data[stat.service_id].total_seconds
                 >= last.arg - e.start_time

\* -------------------------------------------------------------- SpecEdit
\* Creates and status changes, one call at a time: notifications are created
\* with several subjects (and database errors), an extraction is applied to
\* the first and every processing status is set on it, with and without a
\* message.  The handlers are also called for an id of no row.  Every call is
\* recorded in `last` with all its arguments.
Subjects == {<<"subject">>, <<"Re: subject">>}

EditCreate(email_id, subject, at) ==
  /\ Idle
  /\ RoomForNotification(View)
  /\ Call("Create", <<email_id, subject>>,
          create_notification(View, subject, email_id, at), TRUE)

EditCreateAct ==
  \E email_id \in MessageIds, subject \in Subjects,
     at \in {"none", "commit", "refresh"} :
    EditCreate(email_id, subject, at)

\* an info extraction whose summary says restored is applied to LLM data 1
EditApplyExtractionAct ==
  /\ Idle
  /\ Call("ApplyExtraction", 1,
          update_llm_data_extracted_fields(
            View, 1,
            [extracted_service_name |-> <<"A", "W", "S">>,
             event_start_time |-> EventStart, event_end_time |-> EventEnd,
             notification_type |-> "info", severity |-> "high",
             llm_summary |-> SummaryRestored,
             processing_status |-> "completed",
             notification_status |-> NoEnum],
            FALSE),
          TRUE)

ErrorMessages == {NoneText, <<"LLM error">>}

SetStatus(llm_data_id, processing_status, error_message, commit_fails) ==
  /\ Idle
  /\ Call("SetStatus", <<llm_data_id, processing_status, error_message>>,
          update_llm_data_status(View, llm_data_id, processing_status,
                                 error_message, commit_fails),
          TRUE)

SetStatusAct ==
  \E llm_data_id \in {1, MaxNotif + 1}, processing_status \in ProcessingStatusEnum,
     error_message \in ErrorMessages, commit_fails \in BOOLEAN :
    /\ commit_fails => processing_status = "error"
    /\ SetStatus(llm_data_id, processing_status, error_message, commit_fails)

\* the keyword arguments of an Update: each given or not
UpdateArguments ==
  [title : {NoneText, <<"edited">>},
   status : {NoEnum, "archived", "triaged"},
   service_name : {NoneText, <<"G", "C", "P">>},
   severity : {NoEnum, "low"}]

Edit(notification_id, u, commit_fails) ==
  /\ Idle
  /\ Call("Update", <<notification_id, u>>,
          update_notification(View, notification_id, u, commit_fails), TRUE)

EditAct ==
  \E notification_id \in {1, 3}, u \in UpdateArguments, commit_fails \in BOOLEAN :
    Edit(notification_id, u, commit_fails)

NextEdit ==
  \/ EditCreateAct
  \/ EditApplyExtractionAct
  \/ SetStatusAct

SpecEdit == Init /\ [][NextEdit]_vars

\* Edits on a store that holds two notifications: an extraction is applied to
\* the first, and it is edited with every choice of given fields; Update is
\* also called for an id of no notification.
NextUpdate ==
  \/ EditApplyExtractionAct
  \/ EditAct

SpecUpdate == InitStatus /\ [][NextUpdate]_vars

\* the row with the given id
RowById(rows, id) == CHOOSE r \in rows : r.id = id

\* C26: update_llm_data_status(id, s, msg) sets the LLM data's processing
\* status to s and its error message to msg and sets the parent
\* notification's status by s alone: error_processing for error,
\* pending_manual_review for manual_review, pending_validation for
\* pending_validation and new for every other status, whatever the
\* notification type and the summary are; nothing else changes.
C26_ProcessingStatusMapping ==
  [][(last'.op = "SetStatus" /\ last'.ok)
       => LET id == last'.arg[1]
              s == last'.arg[2]
              msg == last'.arg[3]
              l == RowById(llm_data, id)
          IN /\ llm_data' = (llm_data \ {l})
                  \cup {[l EXCEPT !.processing_status = s, !.error_message = msg]}
             /\ \A n \in notifications :
                  IF n.llm_data_id = id
                  THEN RowById(notifications', n.id) =
                         [n EXCEPT !.status =
                            CASE s = "error" -> "error_processing"
                              [] s = "manual_review" -> "pending_manual_review"
                              [] s = "pending_validation" -> "pending_validation"
                              [] OTHER -> "new"]
                  ELSE n \in notifications'
             /\ Cardinality(notifications') = Cardinality(notifications)
             /\ UNCHANGED <<raw_emails, downtime_events, notification_impacts>>]_vars

\* C26 witness: the status completed has been set on LLM data whose type is
\* info and whose summary says restored, and the notification is new
C26_Witness ==
  /\ last.op = "SetStatus" /\ last.ok
  /\ last.arg[2] = "completed" /\ last.arg[3] = <<"LLM error">>
  /\ \E l \in llm_data, n \in notifications :
       /\ l.id = last.arg[1] /\ n.llm_data_id = l.id
       /\ l.processing_status = "completed"
       /\ l.error_message = <<"LLM error">>
       /\ l.notification_type = "info"
       /\ l.llm_summary = SummaryRestored
       /\ n.status = "new"

\* C29: every successful Create adds one notification with status new and
\* the subject as title, one raw email whose hash is the SHA-256 of the
\* external message id, and one LLM data row with processing status
\* unprocessed and no service name, summary, event times or error message.
C29_CreateInitialState ==
  [][(last'.op = "Create" /\ last'.ok)
       => \E n \in notifications' \ notifications,
             r \in raw_emails' \ raw_emails,
             l \in llm_data' \ llm_data :
            /\ notifications' = notifications \cup {n}
            /\ raw_emails' = raw_emails \cup {r}
            /\ llm_data' = llm_data \cup {l}
            /\ n.status = "new" /\ n.title = last'.arg[2]
            /\ n.raw_email_id = r.id /\ n.llm_data_id = l.id
            /\ r.original_email_id_hash = Sha256(last'.arg[1])
            /\ l.processing_status = "unprocessed"
            /\ l.extracted_service_name = NoneText
            /\ l.llm_summary = NoneText
            /\ l.event_start_time = NoneText
            /\ l.event_end_time = NoneText
            /\ l.error_message = NoneText]_vars

\* C29 witness: a second notification has just been created with the other
\* subject, after the first was processed
C29_Witness ==
  /\ last.op = "Create" /\ last.ok
  /\ last.arg[2] = <<"Re: subject">>
  /\ \E n \in notifications, r \in raw_emails, l \in llm_data, m \in notifications :
       /\ n.raw_email_id = r.id /\ n.llm_data_id = l.id
       /\ r.original_email_id_hash = Sha256(last.arg[1])
       /\ n.title = <<"Re: subject">> /\ n.status = "new"
       /\ l.processing_status = "unprocessed"
       /\ m.id < n.id /\ m.status = "error_processing"

\* C30: Update changes only the fields that are given, title and status on
\* the notification, service name and severity on its LLM data, and never
\* sets the status from the notification type or the processing status; the
\* LLM data's other fields and every other row are unchanged.
C30_UpdateIsOverride ==
  [][(last'.op = "Update" /\ last'.ok)
       => LET n == RowById(notifications, last'.arg[1])
              u == last'.arg[2]
              l == RowById(llm_data, n.llm_data_id)
          IN /\ notifications' = (notifications \ {n}) \cup
                  {[n EXCEPT !.title = IF u.title = NoneText THEN @ ELSE u.title,
                             !.status = IF u.status = NoEnum THEN @ ELSE u.status]}
             /\ llm_data' = (llm_data \ {l}) \cup
                  {[l EXCEPT !.extracted_service_name =
                               IF u.service_name = NoneText THEN @ ELSE u.service_name,
                             !.severity =
                               IF u.severity = NoEnum THEN @ ELSE u.severity]}
             /\ UNCHANGED <<raw_emails, downtime_events, notification_impacts>>]_vars

\* C30 witness: only a title has been given for a notification whose LLM data
\* is a completed info extraction that says restored; the notification keeps
\* the status resolved the extraction gave it, and a second notification
\* exists
C30_Witness ==
  /\ last.op = "Update" /\ last.ok
  /\ last.arg[2] = [title |-> <<"edited">>, status |-> NoEnum,
                    service_name |-> NoneText, severity |-> NoEnum]
  /\ \E n \in notifications, l \in llm_data, m \in notifications :
       /\ n.id = last.arg[1] /\ n.llm_data_id = l.id /\ m.id # n.id
       /\ n.title = <<"edited">> /\ n.status = "resolved"
       /\ l.notification_type = "info" /\ l.llm_summary = SummaryRestored
       /\ l.processing_status = "completed"
       /\ l.extracted_service_name = <<"A", "W", "S">>
       /\ l.severity = "high"

\* ---------------------------------------------------------- the registry
\* The registry handlers, one call at a time, on a database that starts
\* empty.  Every call is recorded in `last` with its arguments and the id of
\* the row it returned.
MaxRegistry == 2
MaxSystems == 1

InitRegistry ==
  /\ raw_emails = {}
  /\ llm_data = {}
  /\ notifications = {}
  /\ downtime_events = {}
  /\ notification_impacts = {}
  /\ pending = <<>>
  /\ last = NoCall
  /\ vote_results = <<>>
  /\ attempt = 0
  /\ calls = 0
  /\ result = <<>>
  /\ stats = NoStats
  /\ downtime_stats = <<>>
  /\ registry = EmptyRegistry
  /\ sessions = <<>>

RegCall(op, args, outcome) ==
  /\ registry' = outcome.R
  /\ last' = [op |-> op, arg |-> <<args, outcome.id>>,
              ok |-> outcome.ok, note |-> outcome.note]
  /\ UNCHANGED <<tables, pending, extraction, stats, downtime_stats, sessions>>

\* names that differ, two of them only in case
RegistryNames == {<<"A", "W", "S">>, <<"a", "w", "s">>, <<"G", "C", "P">>}

RegistryIds == 1..(MaxRegistry + 1)

CreateServiceAct ==
  \E service_name \in RegistryNames :
    /\ \/ NextId(registry.services) <= MaxRegistry
       \/ get_external_service_by_name(registry, service_name) # {}
    /\ RegCall("CreateService", <<service_name>>,
               create_external_service(registry, service_name, NoneText, NoneText))

CreateSystemAct ==
  \E system_name \in RegistryNames :
    /\ \/ NextId(registry.systems) <= MaxRegistry
       \/ \E s \in registry.systems : s.system_name = system_name
    /\ RegCall("CreateSystem", <<system_name>>,
               create_internal_system(registry, system_name, NoneText, NoneText))

ServiceUpdates ==
  [service_name : {NoneText} \cup RegistryNames,
   provider : {NoneText},
   description : {NoneText, <<"edited">>}]

UpdateServiceAct ==
  \E service_id \in RegistryIds, u \in ServiceUpdates, commit_fails \in BOOLEAN :
    RegCall("UpdateService", <<service_id, u>>,
            update_external_service(registry, service_id, u, commit_fails))

SystemUpdates ==
  [system_name : {NoneText} \cup RegistryNames,
   responsible_contact : {NoneText},
   description : {NoneText}]

UpdateSystemAct ==
  \E system_id \in RegistryIds, u \in SystemUpdates, commit_fails \in BOOLEAN :
    RegCall("UpdateSystem", <<system_id, u>>,
            update_internal_system(registry, system_id, u, commit_fails))

NextNames ==
  \/ CreateServiceAct
  \/ CreateSystemAct
  \/ UpdateServiceAct
  \/ UpdateSystemAct

SpecNames == InitRegistry /\ [][NextNames]_vars

\* Dependencies: services and (fewer) systems are created with the name of
\* their id and deleted, dependencies are created between any two ids, with
\* two descriptions, and deleted.
DependencyCreateServiceAct ==
  /\ NextId(registry.services) <= MaxRegistry
  /\ RegCall("CreateService", <<ServiceNameText(NextId(registry.services))>>,
             create_external_service(
               registry, ServiceNameText(NextId(registry.services)),
               NoneText, NoneText))

DependencyCreateSystemAct ==
  /\ NextId(registry.systems) <= MaxSystems
  /\ RegCall("CreateSystem", <<ServiceNameText(NextId(registry.systems))>>,
             create_internal_system(
               registry, ServiceNameText(NextId(registry.systems)),
               NoneText, NoneText))

DeleteServiceAct ==
  \E service_id \in RegistryIds, commit_fails \in BOOLEAN :
    RegCall("DeleteService", <<service_id>>,
            delete_external_service(registry, service_id, commit_fails))

DeleteSystemAct ==
  \E system_id \in RegistryIds, commit_fails \in BOOLEAN :
    RegCall("DeleteSystem", <<system_id>>,
            delete_internal_system(registry, system_id, commit_fails))

DependencyDescriptions == {<<"first">>, <<"second">>}

CreateDependencyAct ==
  \E internal_system_id \in RegistryIds, external_service_id \in RegistryIds,
     dependency_description \in DependencyDescriptions :
    /\ \/ NextId(registry.deps) <= MaxRegistry
       \/ \E d \in registry.deps : /\ d.internal_system_id = internal_system_id
                                   /\ d.external_service_id = external_service_id
    /\ RegCall("CreateDependency",
               <<internal_system_id, external_service_id, dependency_description>>,
               create_dependency(registry, internal_system_id, external_service_id,
                                 dependency_description))

DeleteDependencyAct ==
  \E dependency_id \in RegistryIds :
    RegCall("DeleteDependency", <<dependency_id>>,
            delete_dependency(registry, dependency_id, FALSE))

NextDependencies ==
  \/ DependencyCreateServiceAct
  \/ DependencyCreateSystemAct
  \/ DeleteServiceAct
  \/ DeleteSystemAct
  \/ CreateDependencyAct
  \/ DeleteDependencyAct

SpecDependencies == InitRegistry /\ [][NextDependencies]_vars

\* the dependencies of a pair
DependenciesOf(deps, internal_system_id, external_service_id) ==
  {d \in deps : /\ d.internal_system_id = internal_system_id
                /\ d.external_service_id = external_service_id}

\* C21: at most one dependency exists per (internal system, external service)
\* pair; create_dependency for an existing pair returns the existing row, with
\* its id and its original description, and adds no row; create_dependency
\* with an internal system or external service that does not exist returns
\* none and adds no row.
C21_DependencyUniqueness ==
  /\ [](\A d \in registry.deps :
          DependenciesOf(registry.deps, d.internal_system_id,
                         d.external_service_id) = {d})
  /\ [][last'.op = "CreateDependency"
          => LET internal_system_id == last'.arg[1][1]
                 external_service_id == last'.arg[1][2]
                 existing == DependenciesOf(registry.deps, internal_system_id,
                                            external_service_id)
             IN IF \/ \A s \in registry.systems : s.id # internal_system_id
                   \/ \A s \in registry.services : s.id # external_service_id
                THEN ~last'.ok /\ last'.arg[2] = Null /\ registry' = registry
                ELSE IF existing # {}
                THEN /\ last'.ok
                     /\ \E d \in existing : d.id = last'.arg[2]
                     /\ registry' = registry
                ELSE /\ last'.ok
                     /\ \E d \in registry'.deps \ registry.deps :
                          /\ registry'.deps = registry.deps \cup {d}
                          /\ d.id = last'.arg[2]
                          /\ d.internal_system_id = internal_system_id
                          /\ d.external_service_id = external_service_id
                          /\ d.dependency_description = last'.arg[1][3]]_vars

\* C21 witness: a second create of a pair, with another description, has
\* returned the row of the first
C21_Witness ==
  /\ last.op = "CreateDependency" /\ last.ok
  /\ last.arg[1][3] = <<"second">>
  /\ \E d \in registry.deps :
       /\ d.id = last.arg[2]
       /\ d.internal_system_id = last.arg[1][1]
       /\ d.external_service_id = last.arg[1][2]
       /\ d.dependency_description = <<"first">>
  /\ Cardinality(registry.deps) = 2

\* C27: delete_external_service and delete_internal_system return false and
\* change nothing whenever a dependency references the entity, and delete the
\* entity only when none does; so every dependency references an internal
\* system and an external service that exist.
C27_DeletionGuard ==
  /\ [](\A d \in registry.deps :
          /\ \E s \in registry.systems : s.id = d.internal_system_id
          /\ \E s \in registry.services : s.id = d.external_service_id)
  /\ [][/\ last'.op = "DeleteService"
             => LET id == last'.arg[1][1]
                IN IF \E d \in registry.deps : d.external_service_id = id
                   THEN ~last'.ok /\ registry' = registry
                   ELSE \/ ~last'.ok /\ registry' = registry
                        \/ /\ last'.ok
                           /\ registry' = [registry EXCEPT !.services =
                                             {s \in @ : s.id # id}]
                           /\ registry'.services # registry.services
        /\ last'.op = "DeleteSystem"
             => LET id == last'.arg[1][1]
                IN IF \E d \in registry.deps : d.internal_system_id = id
                   THEN ~last'.ok /\ registry' = registry
                   ELSE \/ ~last'.ok /\ registry' = registry
                        \/ /\ last'.ok
                           /\ registry' = [registry EXCEPT !.systems =
                                             {s \in @ : s.id # id}]
                           /\ registry'.systems # registry.systems]_vars

\* C27 witness: the delete of a service that a dependency references has
\* returned false, in a store that also holds a service without dependencies
C27_Witness ==
  /\ last.op = "DeleteService" /\ ~last.ok
  /\ \E d \in registry.deps : d.external_service_id = last.arg[1][1]
  /\ \E s \in registry.services : s.id = last.arg[1][1]
  /\ \E s \in registry.services : \A d \in registry.deps : d.external_service_id # s.id

\* the rows of a table that bear the name
Named(rows, field, name) == {r \in rows : r[field] = name}

\* C28: no two external services share a name and no two internal systems
\* do; a create with an existing name returns the existing row and adds
\* none; an update that would rename a row to the name of another row
\* returns none and changes no field of any row.
C28_UniqueNames ==
  /\ [](/\ \A s \in registry.services :
             Named(registry.services, "service_name", s.service_name) = {s}
        /\ \A s \in registry.systems :
             Named(registry.systems, "system_name", s.system_name) = {s})
  /\ [][/\ (/\ last'.op = "CreateService"
            /\ Named(registry.services, "service_name", last'.arg[1][1]) # {})
             => /\ registry' = registry
                /\ \E s \in Named(registry.services, "service_name", last'.arg[1][1]) :
                     last'.ok /\ last'.arg[2] = s.id
        /\ (/\ last'.op = "CreateSystem"
            /\ Named(registry.systems, "system_name", last'.arg[1][1]) # {})
             => /\ registry' = registry
                /\ \E s \in Named(registry.systems, "system_name", last'.arg[1][1]) :
                     last'.ok /\ last'.arg[2] = s.id
        /\ (/\ last'.op = "UpdateService"
            /\ \E s \in registry.services : s.id = last'.arg[1][1]
            /\ \E o \in Named(registry.services, "service_name",
                              last'.arg[1][2].service_name) :
                 o.id # last'.arg[1][1])
             => ~last'.ok /\ last'.arg[2] = Null /\ registry' = registry
        /\ (/\ last'.op = "UpdateSystem"
            /\ \E s \in registry.systems : s.id = last'.arg[1][1]
            /\ \E o \in Named(registry.systems, "system_name",
                              last'.arg[1][2].system_name) :
                 o.id # last'.arg[1][1])
             => ~last'.ok /\ last'.arg[2] = Null /\ registry' = registry]_vars

\* C28 witness: an update that gives a new description and the name of
\* another service has returned none, and the services differ in case only
C28_Witness ==
  /\ last.op = "UpdateService" /\ ~last.ok
  /\ last.arg[1][2].description = <<"edited">>
  /\ \E s \in registry.services, o \in registry.services :
       /\ s.id = last.arg[1][1] /\ o.id # s.id
       /\ o.service_name = last.arg[1][2].service_name
       /\ {s.service_name, o.service_name} = {<<"A", "W", "S">>, <<"a", "w", "s">>}
       /\ s.description = NoneText

\* ------------------------------------------------------------ SpecImpacts
\* Impact resolution on a store that holds two notifications and a registry
\* in which service S1 has k dependent systems and service S2 has one.
\* Every call is recorded in `last` with its arguments; its note is the list
\* of impacts the call returned.
DependentCounts == {0, 1, 2, DefaultLimit, DefaultLimit + 1}

RegistryWith(k) ==
  [services |-> {[id |-> i, service_name |-> ServiceNameText(i),
                  provider |-> NoneText, description |-> NoneText] : i \in 1..2},
   systems |-> {[id |-> i, system_name |-> <<"I", ToString(i)>>,
                 responsible_contact |-> NoneText, description |-> NoneText] :
                  i \in 1..(IF k = 0 THEN 1 ELSE k)},
   deps |-> {[id |-> i, internal_system_id |-> i, external_service_id |-> 1,
              dependency_description |-> NoneText] : i \in 1..k}
            \cup {[id |-> k + 1, internal_system_id |-> 1, external_service_id |-> 2,
                   dependency_description |-> NoneText]}]

InitImpacts ==
  LET W == CreatedRows(CreatedRows(EmptyStore, <<"subject">>, 1), <<"subject">>, 2)
  IN /\ raw_emails = W.raw
     /\ llm_data = W.llm
     /\ notifications = W.notif
     /\ downtime_events = {}
     /\ notification_impacts = {}
     /\ pending = <<>>
     /\ last = NoCall
     /\ vote_results = <<>>
     /\ attempt = 0
     /\ calls = 0
     /\ result = <<>>
     /\ stats = NoStats
     /\ downtime_stats = <<>>
     /\ registry \in {RegistryWith(k) : k \in DependentCounts}
     /\ sessions = <<>>

\* the names asked for: none, the empty string, the two services, S1 in
\* small letters and a name of no service
ImpactNames ==
  {NoneText, NoText, <<"S", "1">>, <<"S", "2">>, <<"s", "1">>, <<"S", "9">>}

ResolveImpactsAct ==
  /\ Idle
  /\ \E notification_id \in Ids(View.notif), service_name \in ImpactNames :
       Call("ResolveImpacts", <<notification_id, service_name>>,
            Outcome(analyze_notification_impacts(View, registry, notification_id,
                                                 service_name),
                    "commit", TRUE,
                    impacts_returned(registry, notification_id, service_name)),
            TRUE)

NextImpacts == ResolveImpactsAct

SpecImpacts == InitImpacts /\ [][NextImpacts]_vars

\* the impacts a notification should have for a service: one for every
\* internal system that has a dependency on the service
ImpactsFor(notification_id, service) ==
  {[notification_id |-> notification_id, internal_system_id |-> d.internal_system_id] :
     d \in {x \in registry.deps : x.external_service_id = service.id}}

\* C24: for a service name that matches an external service, after
\* ResolveImpacts(n, name) the impact (n, s) exists for every internal system
\* s that has a dependency on the service, however many there are; the call
\* returns these impacts and adds nothing else, and a repeated call returns
\* the same impacts and adds no row.
C24_ImpactsComplete ==
  [][last'.op = "ResolveImpacts"
       => \A service \in registry.services :
            service.service_name = last'.arg[2]
              => LET wanted == ImpactsFor(last'.arg[1], service)
                 IN /\ notification_impacts' = notification_impacts \cup wanted
                    /\ last'.note = wanted]_vars

\* C25: when the service name is absent, empty or not exactly the name of an
\* external service, ResolveImpacts returns an empty list and leaves the
\* notification impacts unchanged.
C25_UnknownNameIsNoOp ==
  [][(/\ last'.op = "ResolveImpacts"
      /\ \/ last'.arg[2] \in {NoneText, NoText}
         \/ \A service \in registry.services : service.service_name # last'.arg[2])
       => /\ last'.note = {}
          /\ UNCHANGED tables]_vars

\* C25 witness: the name of a service with dependents was asked for in small
\* letters; nothing was returned and the notification has no impact
C25_Witness ==
  /\ last.op = "ResolveImpacts"
  /\ last.arg[2] = <<"s", "1">>
  /\ last.note = {}
  /\ \E service \in registry.services :
       /\ service.service_name = <<"S", "1">>
       /\ ImpactsFor(last.arg[1], service) # {}
  /\ \A i \in notification_impacts : i.notification_id # last.arg[1]
  /\ notification_impacts # {}

\* ------------------------------------------------------------- SpecRace
\* Two callers, each with a database session of its own, create dependencies
\* and external services at the same time.  A create handler runs in two
\* steps: its queries, which read the committed rows, and its db.commit(),
\* which inserts the row.  A session is a record: pc is the caller's position
\* ("idle", "added": the row is added and not committed, "returned"), op and
\* args are the call, id is the id of the row returned (Null: none) and
\* raised says that the call ended with an exception.
Callers == {1, 2}

IdleSession == [pc |-> "idle", op |-> "-", args |-> <<>>, id |-> Null, raised |-> FALSE]

\* one external service and two internal systems, no dependency
RaceRegistry ==
  [services |-> {[id |-> 1, service_name |-> <<"S", "1">>,
                  provider |-> NoneText, description |-> NoneText]},
   systems |-> {[id |-> i, system_name |-> <<"I", ToString(i)>>,
                 responsible_contact |-> NoneText, description |-> NoneText] :
                  i \in 1..2},
   deps |-> {}]

InitRace ==
  /\ raw_emails = {}
  /\ llm_data = {}
  /\ notifications = {}
  /\ downtime_events = {}
  /\ notification_impacts = {}
  /\ pending = <<>>
  /\ last = NoCall
  /\ vote_results = <<>>
  /\ attempt = 0
  /\ calls = 0
  /\ result = <<>>
  /\ stats = NoStats
  /\ downtime_stats = <<>>
  /\ registry = RaceRegistry
  /\ sessions = [c \in Callers |-> IdleSession]

\* the handler of a session's call, run on the registry R
RaceHandler(R, op, args) ==
  IF op = "create_dependency"
  THEN create_dependency(R, args[1], args[2], args[3])
  ELSE create_external_service(R, args[1], args[2], args[3])

\* db.commit() of a create handler: the INSERT is flushed and committed.  The
\* unique constraint rejects it when a row with the same key has been
\* committed since the handler's query; the handlers have no except clause,
\* so the IntegrityError leaves the handler.
RaceCommit(R, op, args) ==
  LET outcome == RaceHandler(R, op, args)
  IN IF outcome.note = "created"
     THEN outcome
     ELSE RegOutcome(R, FALSE, Null, "IntegrityError")

\* the calls made: a dependency of system 1 or 2 on service 1, or an
\* external service of one of two names
RaceCalls ==
  {[op |-> "create_dependency", args |-> <<system, 1, NoneText>>] : system \in 1..2}
    \cup {[op |-> "create_external_service", args |-> <<name, NoneText, NoneText>>] :
            name \in {<<"A", "W", "S">>, <<"G", "C", "P">>}}

\* the handler up to db.add(): the parents and the existing row are looked up
\* in the committed rows; an existing row is returned at once
RaceCheckAct ==
  \E c \in Callers, call \in RaceCalls :
    /\ sessions[c].pc = "idle"
    /\ LET outcome == RaceHandler(registry, call.op, call.args)
       IN IF outcome.note = "created"
          THEN /\ sessions' = [sessions EXCEPT ![c] =
                                 [pc |-> "added", op |-> call.op, args |-> call.args,
                                  id |-> Null, raised |-> FALSE]]
               /\ UNCHANGED last
          ELSE /\ sessions' = [sessions EXCEPT ![c] =
                                 [pc |-> "returned", op |-> call.op, args |-> call.args,
                                  id |-> outcome.id, raised |-> FALSE]]
               /\ last' = [op |-> call.op, arg |-> <<c, call.args, outcome.id>>,
                           ok |-> outcome.ok, note |-> outcome.note]
    /\ UNCHANGED <<tables, pending, extraction, stats, downtime_stats, registry>>

\* db.commit(); db.refresh(row); return row
RaceCommitAct ==
  \E c \in Callers :
    /\ sessions[c].pc = "added"
    /\ LET outcome == RaceCommit(registry, sessions[c].op, sessions[c].args)
       IN /\ registry' = outcome.R
          /\ sessions' = [sessions EXCEPT ![c].pc = "returned",
                                          ![c].id = outcome.id,
                                          ![c].raised = ~outcome.ok]
          /\ last' = [op |-> sessions[c].op, arg |-> <<c, sessions[c].args, outcome.id>>,
                      ok |-> outcome.ok, note |-> outcome.note]
    /\ UNCHANGED <<tables, pending, extraction, stats, downtime_stats>>

\* the request is over: close_session closes the caller's session
RaceReturnAct ==
  \E c \in Callers :
    /\ sessions[c].pc = "returned"
    /\ sessions' = [sessions EXCEPT ![c] = IdleSession]
    /\ UNCHANGED <<tables, pending, extraction, stats, downtime_stats, registry, last>>

NextRace == RaceCheckAct \/ RaceCommitAct \/ RaceReturnAct

SpecRace == InitRace /\ [][NextRace]_vars

\* the rows of the registry that have the unique key of a call
RowsWithKey(op, args) ==
  IF op = "create_dependency"
  THEN {d \in registry.deps : /\ d.internal_system_id = args[1]
                              /\ d.external_service_id = args[2]}
  ELSE {x \in registry.services : x.service_name = args[1]}

\* C22: a call that creates a dependency pair or an external service name
\* returns without an error, also when another caller has inserted the same
\* key between the call's existence check and its insert: the call returns
\* the row that exists, and exactly one row with the key exists afterwards.
C22_BenignConflicts ==
  \A c \in DOMAIN sessions :
    sessions[c].pc = "returned"
      => /\ ~sessions[c].raised
         /\ Cardinality(RowsWithKey(sessions[c].op, sessions[c].args)) = 1
         /\ \E row \in RowsWithKey(sessions[c].op, sessions[c].args) :
              row.id = sessions[c].id

\* ------------------------------------------------------- SpecIntakeRace
\* Two callers, each with a database session of its own, take in emails at
\* the same time.  A caller is the email processing loop (op "intake": the
\* lookup, then create_notification) or the endpoint api_process_html_email
\* (create_notification without a lookup).  create_notification runs in two
\* steps: the flush of the RawEmail row, which meets the unique index on the
\* hash, and the commit, which makes the three rows visible to the other
\* session.  A session is at "looked" after the lookup, at "flushed" while
\* its rows are inserted and not committed, and at "returned" with the id of
\* the notification it got (Null: create_notification returned None).
InitIntakeRace ==
  /\ raw_emails = {}
  /\ llm_data = {}
  /\ notifications = {}
  /\ downtime_events = {}
  /\ notification_impacts = {}
  /\ pending = <<>>
  /\ last = NoCall
  /\ vote_results = <<>>
  /\ attempt = 0
  /\ calls = 0
  /\ result = <<>>
  /\ stats = NoStats
  /\ downtime_stats = <<>>
  /\ registry = EmptyRegistry
  /\ sessions = [c \in Callers |-> IdleSession]

IntakeCallers == {"intake", "api_process_html_email"}

\* existing_notification = crud.get_notification_by_original_email_id(...);
\* if existing_notification: continue.  The endpoint has no lookup.
RaceLookupAct ==
  \E c \in Callers, op \in IntakeCallers, email_id \in MessageIds :
    /\ sessions[c].pc = "idle"
    /\ LET existing_notification ==
             get_notification_by_original_email_id(Committed, email_id)
       IN IF op = "intake" /\ existing_notification # {}
          THEN /\ sessions' = [sessions EXCEPT ![c] =
                                 [pc |-> "returned", op |-> op, args |-> <<email_id>>,
                                  id |-> (CHOOSE n \in existing_notification : TRUE).id,
                                  raised |-> FALSE]]
               /\ last' = [op |-> op, arg |-> <<c, email_id>>, ok |-> TRUE,
                           note |-> "skipped"]
          ELSE /\ sessions' = [sessions EXCEPT ![c] =
                                 [pc |-> "looked", op |-> op, args |-> <<email_id>>,
                                  id |-> Null, raised |-> FALSE]]
               /\ UNCHANGED last
    /\ UNCHANGED <<tables, pending, extraction, stats, downtime_stats, registry>>

\* db.add(db_raw_email); db.flush() ... db.add(db_notification).  The insert
\* of a hash that another session has inserted and not committed waits for
\* that session; the insert of a committed hash raises IntegrityError, and
\* the except branch rolls back and returns None.
RaceFlushAct ==
  \E c \in Callers :
    /\ sessions[c].pc = "looked"
    /\ \A o \in Callers \ {c} :
         ~(sessions[o].pc = "flushed" /\ sessions[o].args = sessions[c].args)
    /\ LET outcome ==
             create_notification(Committed, <<"subject">>, sessions[c].args[1], "none")
       IN IF outcome.tx = "commit"
          THEN /\ sessions' = [sessions EXCEPT ![c].pc = "flushed"]
               /\ UNCHANGED last
          ELSE /\ sessions' = [sessions EXCEPT ![c].pc = "returned"]
               /\ last' = [op |-> sessions[c].op, arg |-> <<c, sessions[c].args[1]>>,
                           ok |-> outcome.ok, note |-> outcome.note]
    /\ UNCHANGED <<tables, pending, extraction, stats, downtime_stats, registry>>

\* db.commit() ... return db_notification
RaceCreateCommitAct ==
  \E c \in Callers :
    /\ sessions[c].pc = "flushed"
    /\ LET outcome ==
             create_notification(Committed, <<"subject">>, sessions[c].args[1], "none")
       IN /\ raw_emails' = outcome.W.raw
          /\ llm_data' = outcome.W.llm
          /\ notifications' = outcome.W.notif
          /\ sessions' = [sessions EXCEPT
                            ![c].pc = "returned",
                            ![c].id = IF outcome.W = Committed THEN Null
                                      ELSE NextId(notifications)]
          /\ last' = [op |-> sessions[c].op, arg |-> <<c, sessions[c].args[1]>>,
                      ok |-> outcome.ok, note |-> outcome.note]
    /\ UNCHANGED <<downtime_events, notification_impacts, pending, extraction,
                   stats, downtime_stats, registry>>

\* the loop goes on to the next email; the endpoint answers its request
RaceContinueAct ==
  \E c \in Callers :
    /\ sessions[c].pc = "returned"
    /\ sessions' = [sessions EXCEPT ![c] = IdleSession]
    /\ UNCHANGED <<tables, pending, extraction, stats, downtime_stats, registry, last>>

NextIntakeRace ==
  RaceLookupAct \/ RaceFlushAct \/ RaceCreateCommitAct \/ RaceContinueAct

SpecIntakeRace == InitIntakeRace /\ [][NextIntakeRace]_vars

\* C23: in every interleaving of two intake attempts at most one RawEmail
\* and one Notification exist for an external id, every RawEmail and LLMData
\* row belongs to a notification, and a caller whose create met the other
\* caller's row returns without an exception.
C23_ConcurrentIntake ==
  /\ \A email_id \in MessageIds :
       /\ Cardinality({r \in raw_emails :
                         r.original_email_id_hash = Sha256(email_id)}) <= 1
       /\ Cardinality(get_notification_by_original_email_id(Committed, email_id)) <= 1
  /\ \A r \in raw_emails : \E n \in notifications : n.raw_email_id = r.id
  /\ \A l \in llm_data : \E n \in notifications : n.llm_data_id = l.id
  /\ \A c \in DOMAIN sessions :
       sessions[c].pc = "returned" => ~sessions[c].raised

\* C23 witness: both callers are loops that looked up the same id and found
\* nothing; one created the notification, the other's create returned None
C23_Witness ==
  /\ sessions # <<>>
  /\ \E c \in Callers, o \in Callers :
       /\ sessions[c].pc = "returned" /\ sessions[o].pc = "returned"
       /\ sessions[c].op = "intake" /\ sessions[o].op = "intake"
       /\ sessions[c].args = sessions[o].args
       /\ sessions[c].id # Null
       /\ sessions[o].id = Null
       /\ Cardinality(get_notification_by_original_email_id(
                        Committed, sessions[c].args[1])) = 1

\* ---------------------------------------------------------- SpecNotFound
\* The handlers that take the id of a row are called on a store that holds
\* two notifications, with the id of a row that exists and with an id of no
\* row; downtime events are opened in between.  Every such call is recorded
\* in `last`, its first argument being the id.
OutageFields ==
  [extracted_service_name |-> <<"A", "W", "S">>,
   event_start_time |-> EventStart, event_end_time |-> EventEnd,
   notification_type |-> "outage", severity |-> "high",
   llm_summary |-> SummaryPlain, processing_status |-> "completed",
   notification_status |-> NoEnum]

NotFoundApplyAct ==
  /\ Idle
  /\ \E llm_data_id \in {1, MaxNotif + 1} :
       Call("ApplyExtraction", <<llm_data_id>>,
            update_llm_data_extracted_fields(View, llm_data_id, OutageFields, FALSE),
            TRUE)

NotFoundMarkAct ==
  /\ Idle
  /\ \E llm_data_id \in {1, MaxNotif + 1}, processing_status \in {"error", "manual_review"} :
       Call("MarkExtractionFailed", <<llm_data_id, processing_status>>,
            update_llm_data_status(View, llm_data_id, processing_status,
                                   <<"LLM error">>, FALSE),
            TRUE)

NotFoundUpdateAct ==
  /\ Idle
  /\ \E notification_id \in {1, MaxNotif + 1}, status \in {NoEnum, "archived"} :
       Call("Update", <<notification_id, status>>,
            update_notification(View, notification_id,
                                [title |-> <<"edited">>, status |-> status,
                                 service_name |-> <<"G", "C", "P">>,
                                 severity |-> "low"],
                                FALSE),
            TRUE)

NotFoundCloseAct ==
  /\ Idle
  /\ \E event_id \in {1, MaxEvents + 1}, end_notification_id \in Ids(View.notif) :
       Call("CloseEvent", <<event_id, end_notification_id>>,
            close_downtime_event(View, event_id, end_notification_id, 2),
            TRUE)

NextNotFound ==
  \/ OpenEventAct
  \/ NotFoundApplyAct
  \/ NotFoundMarkAct
  \/ NotFoundUpdateAct
  \/ NotFoundCloseAct

SpecNotFound == InitStatus /\ [][NextNotFound]_vars

\* the ids of the rows a recorded call looks its first argument up in
RowsLookedUp(op) ==
  CASE op \in {"ApplyExtraction", "MarkExtractionFailed"} -> Ids(llm_data)
    [] op = "Update" -> Ids(notifications)
    [] op = "CloseEvent" -> Ids(downtime_events)
    [] OTHER -> {}

\* C31: ApplyExtraction, MarkExtractionFailed, Update and CloseEvent called
\* with an id of no row return none and leave every LLM data row,
\* notification and downtime event as it was.
C31_NotFound ==
  [][(/\ last'.op \in {"ApplyExtraction", "MarkExtractionFailed", "Update", "CloseEvent"}
      /\ last'.arg[1] \notin RowsLookedUp(last'.op))
       => /\ ~last'.ok
          /\ UNCHANGED tables]_vars

\* C31 witness: a call with an id of no row returned none on a store whose
\* rows earlier calls have changed
C31_Witness ==
  /\ last.op \in {"ApplyExtraction", "MarkExtractionFailed", "Update", "CloseEvent"}
  /\ last.arg[1] \notin RowsLookedUp(last.op)
  /\ ~last.ok
  /\ \E e \in downtime_events : e.end_notification_id # Null
  /\ \E l \in llm_data : l.processing_status = "completed"
  /\ \E n \in notifications : n.status = "archived"

\* ------------------------------------------------------------- SpecApply
\* Extractions are applied to the first of two notifications with every
\* combination of a few values of each argument, absent values included,
\* with and without an explicit notification status; in between the
\* extraction is marked as failed.  Every call is recorded in `last` with
\* its arguments.
ApplyArguments ==
  [extracted_service_name : {NoneText, <<"A", "W", "S">>},
   event_start_time : {EventStart},
   event_end_time : {NoneText, EventEnd},
   notification_type : {NoEnum, "outage", "info"},
   severity : {"high"},
   llm_summary : {NoneText, SummaryPlain, SummaryRestored},
   processing_status : {"completed", "error", "pending_validation"},
   notification_status : {NoEnum, "triaged", "resolved"}]

ApplyCallAct ==
  /\ Idle
  /\ \E f \in ApplyArguments :
       Call("ApplyExtraction", <<1, f>>,
            update_llm_data_extracted_fields(View, 1, f, FALSE), TRUE)

NextApply == ApplyCallAct \/ NotFoundMarkAct

SpecApply == InitStatus /\ [][NextApply]_vars

\* the fields of an LLM data row that an extraction supplies
SuppliedFields ==
  {"extracted_service_name", "event_start_time", "event_end_time",
   "notification_type", "severity", "llm_summary", "processing_status"}

\* C32: an ApplyExtraction with an explicit notification status gives the
\* parent notification exactly that status, whatever the notification type,
\* the summary and the processing status are; every ApplyExtraction leaves
\* the LLM data with the supplied values in all extracted fields and with no
\* error message, also when the row had one from MarkExtractionFailed.
C32_ExplicitStatusAndErrorClearing ==
  [][(last'.op = "ApplyExtraction" /\ last'.ok)
       => LET f == last'.arg[2]
              row == RowById(llm_data', last'.arg[1])
          IN /\ f.notification_status # NoEnum
                  => \A n \in notifications' :
                       n.llm_data_id = row.id => n.status = f.notification_status
             /\ \A field \in SuppliedFields : row[field] = f[field]
             /\ row.error_message = NoneText]_vars

\* C32 witness: an extraction of an outage that ended in an error was
\* applied with the explicit status triaged
C32_Witness ==
  /\ last.op = "ApplyExtraction"
  /\ last.ok
  /\ last.arg[2].notification_status = "triaged"
  /\ last.arg[2].notification_type = "outage"
  /\ last.arg[2].processing_status = "error"
  /\ RowById(llm_data, 1).error_message = NoneText
  /\ RowById(notifications, 1).status = "triaged"

\* ------------------------------------------------- reconciler, step 3
\* the notifications of the store that lack their raw email or LLM data
Incomplete ==
  {n.id : n \in {x \in notifications :
                   \/ x.llm_data_id \notin Ids(llm_data)
                   \/ x.raw_email_id \notin Ids(raw_emails)}}

TagChars(tag) ==
  CASE tag = "maintenance" -> <<"m", "a", "i", "n", "t", "e", "n", "a", "n", "c", "e">>
    [] tag = "outage" -> <<"o", "u", "t", "a", "g", "e">>
    [] tag = "update" -> <<"u", "p", "d", "a", "t", "e">>
    [] tag = "alert" -> <<"a", "l", "e", "r", "t">>
    [] tag = "info" -> <<"i", "n", "f", "o">>
    [] tag = "security" -> <<"s", "e", "c", "u", "r", "i", "t", "y">>
    [] tag = "unknown" -> <<"u", "n", "k", "n", "o", "w", "n">>

\* str.strip(): the blanks at both ends are dropped
RECURSIVE Strip(_)
Strip(s) ==
  IF s = <<>> THEN s
  ELSE IF Head(s) = " " THEN Strip(Tail(s))
  ELSE IF s[Len(s)] = " " THEN Strip(SubSeq(s, 1, Len(s) - 1))
  ELSE s

\* parse_llm_notification_type(type_str).  NotificationTypeEnum(str) returns
\* the member with that value.  For any other string the except branch
\* builds the dict `maps`, one of whose values is
\* NotificationTypeEnum.RESOLVED; the enum has no such member, so building
\* the dict raises AttributeError before a keyword is looked at.
ParseNotificationType(type_str) ==
  IF type_str = NoneText \/ type_str = NoText \/ Strip(type_str) = <<>>
  THEN "unknown"
  ELSE LET processed_type_str == Strip(Lower(type_str))
       IN IF \E tag \in NotificationTypeEnum : TagChars(tag) = processed_type_str
          THEN CHOOSE tag \in NotificationTypeEnum : TagChars(tag) = processed_type_str
          ELSE "AttributeError"

TypeWords ==
  {<<"m", "a", "i", "n", "t", "e", "n", "a", "n", "c", "e">>,
   <<"o", "u", "t", "a", "g", "e">>,
   <<"u", "p", "d", "a", "t", "e">>,
   <<"a", "l", "e", "r", "t">>,
   <<"i", "n", "f", "o">>,
   <<"s", "e", "c", "u", "r", "i", "t", "y">>,
   <<"u", "n", "k", "n", "o", "w", "n">>,
   <<"i", "n", "c", "i", "d", "e", "n", "t">>,
   <<"i", "n", "f", "o", "r", "m", "a", "t", "i", "o", "n", "a", "l">>,
   <<"r", "e", "s", "o", "l", "v", "e", "d">>,
   <<"I", "n", "f", "o">>,
   <<"I", "N", "F", "O">>,
   <<"I", "n", "c", "i", "d", "e", "n", "t">>,
   <<"R", "e", "s", "o", "l", "v", "e", "d">>,
   <<"R", "E", "S", "O", "L", "V", "E", "D">>,
   <<"d", "e", "g", "r", "a", "d", "e", "d">>,
   <<"x", "y", "z">>,
   <<>>}

TypeStrings ==
  {NoneText}
    \cup {before \o word \o after :
            before \in {<<>>, <<" ">>, <<"m", "a", "j", "o", "r", " ">>},
            word \in TypeWords,
            after \in {<<>>, <<" ">>, <<" ", "n", "o", "w">>}}

\* one call of the function; `result` keeps the string and what came back
ParseTypeAct ==
  /\ \E type_str \in TypeStrings :
       result' = <<type_str, ParseNotificationType(type_str)>>
  /\ UNCHANGED <<store, vote_results, attempt, calls>>

NextParse == ParseTypeAct

SpecParse == Init /\ [][NextParse]_vars

\* the keyword table of the function whose type is a member of the enum, in
\* the order of the table
TypeKeywords ==
  <<<<<<"m", "a", "i", "n", "t", "e", "n", "a", "n", "c", "e">>, "maintenance">>,
    <<<<"o", "u", "t", "a", "g", "e">>, "outage">>,
    <<<<"i", "n", "c", "i", "d", "e", "n", "t">>, "outage">>,
    <<<<"a", "l", "e", "r", "t">>, "alert">>,
    <<<<"u", "p", "d", "a", "t", "e">>, "info">>,
    <<<<"i", "n", "f", "o">>, "info">>,
    <<<<"i", "n", "f", "o", "r", "m", "a", "t", "i", "o", "n", "a", "l">>, "info">>>>

\* the type the first keyword contained in the string stands for
FirstKeywordType(text) ==
  LET hits == {i \in 1..Len(TypeKeywords) : Contains(text, TypeKeywords[i][1])}
  IN IF hits = {} THEN "unknown"
     ELSE TypeKeywords[CHOOSE i \in hits : \A j \in hits : i <= j][2]

\* C34: for every string parse_llm_notification_type returns a member of
\* NotificationTypeEnum and does not raise: unknown for None and for a blank
\* string; the member whose tag the string is after case-folding and
\* trimming; otherwise the type of the first keyword of the table that the
\* string contains (outage for a string that contains incident), and unknown
\* when it contains none.
C34_TypeParsingTotal ==
  result # <<>> =>
    LET type_str == result[1]
        returned == result[2]
        text == IF type_str = NoneText THEN <<>> ELSE Strip(Lower(type_str))
    IN /\ returned \in NotificationTypeEnum
       /\ text = <<>> => returned = "unknown"
       /\ \A tag \in NotificationTypeEnum : text = TagChars(tag) => returned = tag
       /\ (/\ text # <<>>
           /\ \A tag \in NotificationTypeEnum : text # TagChars(tag)
           /\ ~Contains(text, <<"r", "e", "s", "o", "l", "v", "e", "d">>))
            => returned = FirstKeywordType(text)

\* --------------------------------------------------- open and closed events
\* C35: in every state reached by OpenEvent, CloseEvent and Delete calls,
\* in the committed store and in what a session has flushed, a downtime
\* event has no end time exactly when it has no end notification.
C35_OpenClosedConsistency ==
  \A e \in downtime_events \cup View.events :
    (e.end_time = Null) <=> (e.end_notification_id = Null)

\* C35 witness: after the Delete of notification 2 an event started by
\* notification 1 is open and another event is closed
C35_Witness ==
  /\ last.op = "Delete"
  /\ last.ok
  /\ last.arg = 2
  /\ \E e \in downtime_events :
       /\ e.start_notification_id = 1
       /\ e.end_notification_id = Null
       /\ e.end_time = Null
  /\ \E e \in downtime_events :
       /\ e.end_notification_id # Null
       /\ e.end_time # Null

\* --------------------------------------------------------- SpecInterleave
\* The intake pipeline of main.py takes one email through Create,
\* ApplyExtraction and ResolveImpacts, each a transaction of its own, while
\* other sessions delete notifications, lose rows and run the consistency
\* check between its steps.  `sessions` holds the position of the pipeline:
\* "created" and "applied" with the ids of notification_record and its
\* llm_data as the pipeline holds them, "idle" between two emails.
PipelineSession == "pipeline"

InitInterleave ==
  /\ raw_emails = {}
  /\ llm_data = {}
  /\ notifications = {}
  /\ downtime_events = {}
  /\ notification_impacts = {}
  /\ pending = <<>>
  /\ last = NoCall
  /\ vote_results = <<>>
  /\ attempt = 0
  /\ calls = 0
  /\ result = <<>>
  /\ stats = NoStats
  /\ downtime_stats = <<>>
  /\ registry = SeededRegistry
  /\ sessions = [c \in {PipelineSession} |-> IdleSession]

\* the fields of a successful extraction that names the seeded service
SeededOutageFields ==
  [OutageFields EXCEPT !.extracted_service_name = <<"S", "1">>]

\* the tables and `last` after a step of the pipeline
PipelineStep(op, arg, outcome) ==
  /\ IF outcome.tx = "commit"
     THEN /\ raw_emails' = outcome.W.raw
          /\ llm_data' = outcome.W.llm
          /\ notifications' = outcome.W.notif
          /\ downtime_events' = outcome.W.events
          /\ notification_impacts' = outcome.W.impacts
     ELSE UNCHANGED tables
  /\ last' = [op |-> op, arg |-> arg, ok |-> outcome.ok, note |-> outcome.note]
  /\ stats' = NoStats
  /\ downtime_stats' = <<>>
  /\ UNCHANGED <<pending, registry, extraction>>

\* main.py lines 1174-1194: notification_record = crud.create_notification(...)
InterleaveCreateAct ==
  /\ Idle
  /\ sessions[PipelineSession].pc = "idle"
  /\ RoomForNotification(Committed)
  /\ LET outcome == create_notification(Committed, <<"subject">>,
                                        NextId(raw_emails), "none")
     IN /\ PipelineStep("Create", <<NextId(notifications)>>, outcome)
        /\ sessions' = [sessions EXCEPT ![PipelineSession] =
                          [pc |-> "created", op |-> "pipeline",
                           args |-> <<NextId(llm_data)>>,
                           id |-> NextId(notifications), raised |-> FALSE]]

\* main.py lines 1259-1270 and 1290-1299: the extraction is applied, or its
\* error is recorded and the pipeline goes on to the next email
InterleaveApplyAct ==
  /\ Idle
  /\ sessions[PipelineSession].pc = "created"
  /\ \/ /\ PipelineStep("ApplyExtraction", <<sessions[PipelineSession].id>>,
                        update_llm_data_extracted_fields(
                          Committed, sessions[PipelineSession].args[1],
                          SeededOutageFields, FALSE))
        /\ sessions' = [sessions EXCEPT ![PipelineSession].pc = "applied"]
     \/ /\ PipelineStep("MarkExtractionFailed", <<sessions[PipelineSession].id>>,
                        update_llm_data_status(
                          Committed, sessions[PipelineSession].args[1],
                          "error", <<"LLM error">>, FALSE))
        /\ sessions' = [sessions EXCEPT ![PipelineSession] = IdleSession]

\* main.py lines 1272-1274: crud.analyze_notification_impacts(db,
\* notification_record.id, extracted_service_name).  Nothing in the call looks
\* the notification up.  The insert of an impact for a notification that is
\* gone is refused by a database that enforces the foreign key (PostgreSQL)
\* and accepted by one that does not (SQLite, whose engine get_db_engine
\* creates without the foreign_keys pragma); a refused insert raises from
\* db.commit() and the session is closed with nothing written.
InterleaveResolveAct ==
  /\ Idle
  /\ sessions[PipelineSession].pc = "applied"
  /\ \E foreign_keys_enforced \in BOOLEAN :
       LET notification_id == sessions[PipelineSession].id
           W == analyze_notification_impacts(Committed, registry, notification_id,
                                             SeededOutageFields.extracted_service_name)
           refused == /\ foreign_keys_enforced
                      /\ notification_id \notin Ids(notifications)
                      /\ W # Committed
       IN PipelineStep("ResolveImpacts", <<notification_id>>,
                       IF refused
                       THEN Outcome(Committed, "rollback", FALSE, "IntegrityError")
                       ELSE Outcome(W, "commit", TRUE, ""))
  /\ sessions' = [sessions EXCEPT ![PipelineSession] = IdleSession]

\* a sub-record of the notification in the pipeline is lost outside the
\* handlers, which makes the notification one the consistency check deletes
InterleaveDriftAct ==
  /\ Idle
  /\ Returned
  /\ sessions[PipelineSession].pc \in {"created", "applied"}
  /\ \E n \in {x \in notifications : x.id = sessions[PipelineSession].id} :
       \/ /\ llm_data' = {l \in llm_data : l.id # n.llm_data_id}
          /\ llm_data' # llm_data
          /\ UNCHANGED raw_emails
       \/ /\ raw_emails' = {r \in raw_emails : r.id # n.raw_email_id}
          /\ raw_emails' # raw_emails
          /\ UNCHANGED llm_data
  /\ last' = NoCall
  /\ stats' = NoStats
  /\ downtime_stats' = <<>>
  /\ UNCHANGED <<notifications, downtime_events, notification_impacts, pending,
                 extraction, registry, sessions>>

NextInterleave ==
  \/ InterleaveCreateAct
  \/ InterleaveApplyAct
  \/ InterleaveResolveAct
  \/ DeleteAct
  \/ InterleaveDriftAct
  \/ RunCheckAct
  \/ ReturnAct

SpecInterleave == InitInterleave /\ [][NextInterleave]_vars

\* C36: whatever Delete or RunCheck has removed between the steps of the
\* pipeline, the ResolveImpacts step commits no NotificationImpact whose
\* notification does not exist.
C36_NoDanglingImpacts ==
  [][last'.op = "ResolveImpacts"
       => \A impact \in notification_impacts' \ notification_impacts :
            impact.notification_id \in Ids(notifications')]_vars

\* the foreign key enforced, the step that follows a removal writes nothing
RefusedWhenEnforced ==
  [][(last'.op = "ResolveImpacts" /\ last'.note = "IntegrityError")
       => /\ notification_impacts' = notification_impacts
          /\ last'.arg[1] \notin Ids(notifications)]_vars

\* --------------------------------------------------------- SpecCheckRace
\* A run of check_and_fix_data_consistency on the session of the
\* reconciliation loop, statement by statement, while create_notification
\* runs on the session of the intake loop.  Each statement reads what is
\* committed and what its own session has written; the rows a session has
\* flushed reach the store when it commits.
NoRows == [raw |-> {}, llm |-> {}, notif |-> {}, impacts |-> {}]

\* db.flush(): the rows among `rows` that other sessions see after it
\* (a flush that commits)
flush_commits(rows) == rows

\* db.flush(): the rows among `rows` that other sessions see after it
flush(rows) == {}

\* the stores the race starts from: MaxNotif notifications created, rows of
\* the first lost in any combination, and an impact of a notification that
\* never existed
RECURSIVE CreatedStore(_)
CreatedStore(k) ==
  IF k = 0 THEN EmptyStore
  ELSE CreatedRows(CreatedStore(k - 1), <<"subject">>, k)

DriftedStores ==
  LET W == CreatedStore(MaxNotif)
      first(rows) == {r \in rows : r.id = 1}
  IN {[W EXCEPT !.raw = @ \ r, !.llm = @ \ l, !.notif = @ \ n, !.impacts = i] :
        r \in SUBSET first(W.raw), l \in SUBSET first(W.llm),
        n \in SUBSET first(W.notif),
        i \in SUBSET {[notification_id |-> MaxNotif + 2, internal_system_id |-> 1]}}

InitCheckRace ==
  /\ \E W \in DriftedStores :
       /\ raw_emails = W.raw
       /\ llm_data = W.llm
       /\ notifications = W.notif
       /\ notification_impacts = W.impacts
  /\ downtime_events = {}
  /\ pending = <<>>
  /\ last = NoCall
  /\ vote_results = <<>>
  /\ attempt = 0
  /\ calls = 0
  /\ result = <<>>
  /\ stats = NoStats
  /\ downtime_stats = <<>>
  /\ registry = SeededRegistry
  /\ sessions = [create |-> [pc |-> "idle", rows |-> NoRows, unsent |-> NoRows],
                 check |-> [pc |-> "start", deleted |-> NoRows, during |-> FALSE]]

\* the rows create_notification is about to add to the store
NewRows ==
  LET W == CreatedRows(Committed, <<"subject">>, NextId(raw_emails))
  IN [raw |-> W.raw \ raw_emails, llm |-> W.llm \ llm_data,
      notif |-> W.notif \ notifications, impacts |-> {}]

\* crud.py lines 86-100: db.add(db_raw_email); db.flush()
CheckRaceFlushRawAct ==
  /\ sessions.create.pc = "idle"
  /\ sessions.create.rows = NoRows
  /\ raw_emails' = raw_emails \cup flush(NewRows.raw)
  /\ sessions' = [sessions EXCEPT
                    !.create = [pc |-> "raw_flushed", rows |-> NewRows,
                                unsent |-> [NewRows EXCEPT
                                              !.raw = @ \ flush(NewRows.raw)]]]
  /\ UNCHANGED <<llm_data, notifications, downtime_events, notification_impacts,
                 pending, last, extraction, stats, downtime_stats, registry>>

\* crud.py lines 102-106: db.add(db_llm_data); db.flush()
CheckRaceFlushLLMAct ==
  /\ sessions.create.pc = "raw_flushed"
  /\ llm_data' = llm_data \cup flush(sessions.create.rows.llm)
  /\ sessions' = [sessions EXCEPT
                    !.create.pc = "llm_flushed",
                    !.create.unsent.llm = @ \ flush(sessions.create.rows.llm)]
  /\ UNCHANGED <<raw_emails, notifications, downtime_events, notification_impacts,
                 pending, last, extraction, stats, downtime_stats, registry>>

\* crud.py lines 108-118: db.add(db_notification); db.commit()
CheckRaceCreateCommitAct ==
  /\ sessions.create.pc = "llm_flushed"
  /\ raw_emails' = raw_emails \cup sessions.create.unsent.raw
  /\ llm_data' = llm_data \cup sessions.create.unsent.llm
  /\ notifications' = notifications \cup sessions.create.unsent.notif
  /\ sessions' = [sessions EXCEPT !.create.pc = "returned",
                                  !.create.unsent = NoRows]
  /\ last' = [op |-> "Create", arg |-> <<NextId(notifications)>>, ok |-> TRUE,
              note |-> "none"]
  /\ UNCHANGED <<downtime_events, notification_impacts, pending, extraction,
                 stats, downtime_stats, registry>>

\* what a statement of the check reads: the committed rows without those its
\* session has deleted
Seen ==
  [raw |-> raw_emails \ sessions.check.deleted.raw,
   llm |-> llm_data \ sessions.check.deleted.llm,
   notif |-> notifications \ sessions.check.deleted.notif,
   events |-> downtime_events,
   impacts |-> notification_impacts \ sessions.check.deleted.impacts]

\* the session of the check after a statement that deleted `rows`
CheckStep(pc, rows) ==
  /\ sessions' = [sessions EXCEPT
                    !.check.pc = pc,
                    !.check.deleted =
                      [raw |-> @.raw \cup rows.raw, llm |-> @.llm \cup rows.llm,
                       notif |-> @.notif \cup rows.notif,
                       impacts |-> @.impacts \cup rows.impacts],
                    !.check.during =
                      IF pc = "llm_checked"
                      THEN sessions.create.pc \in {"raw_flushed", "llm_flushed"}
                      ELSE @]
  /\ UNCHANGED <<tables, pending, last, extraction, stats, downtime_stats, registry>>

\* crud.py lines 164-175: 1. orphaned LLMData records
CheckRaceLLMAct ==
  /\ sessions.check.pc = "start"
  /\ CheckStep("llm_checked", [NoRows EXCEPT !.llm = orphaned_llm_data_records(Seen)])

\* crud.py lines 177-189: 2. orphaned RawEmail records
CheckRaceRawAct ==
  /\ sessions.check.pc = "llm_checked"
  /\ CheckStep("raw_checked", [NoRows EXCEPT !.raw = orphaned_raw_email_records(Seen)])

\* crud.py lines 191-209: 3. notifications with missing related records
CheckRaceIncompleteAct ==
  /\ sessions.check.pc = "raw_checked"
  /\ LET W == DeleteIncomplete(Seen, [W |-> Seen, closed |-> FALSE, ret |-> TRUE],
                               incomplete_notifications(Seen), Null).W
     IN CheckStep("notifications_checked",
                  [raw |-> Seen.raw \ W.raw, llm |-> Seen.llm \ W.llm,
                   notif |-> Seen.notif \ W.notif,
                   impacts |-> Seen.impacts \ W.impacts])

\* crud.py lines 211-223: 4. orphaned impacts
CheckRaceImpactsAct ==
  /\ sessions.check.pc = "notifications_checked"
  /\ CheckStep("impacts_checked", [NoRows EXCEPT !.impacts = orphaned_impacts(Seen)])

\* crud.py lines 225-234: nested_transaction.commit(); db.commit()
CheckRaceCommitAct ==
  /\ sessions.check.pc = "impacts_checked"
  /\ raw_emails' = Seen.raw
  /\ llm_data' = Seen.llm
  /\ notifications' = Seen.notif
  /\ notification_impacts' = Seen.impacts
  /\ sessions' = [sessions EXCEPT !.check.pc = "done"]
  /\ last' = [op |-> "RunCheck", arg |-> Null, ok |-> TRUE, note |-> "none"]
  /\ UNCHANGED <<downtime_events, pending, extraction, stats, downtime_stats,
                 registry>>

\* main.py lines 1356-1381: the loop sleeps and runs the check again
CheckRaceAgainAct ==
  /\ sessions.check.pc = "done"
  /\ sessions' = [sessions EXCEPT
                    !.check = [pc |-> "start", deleted |-> NoRows, during |-> FALSE]]
  /\ UNCHANGED <<tables, pending, last, extraction, stats, downtime_stats, registry>>

NextCheckRace ==
  \/ CheckRaceFlushRawAct
  \/ CheckRaceFlushLLMAct
  \/ CheckRaceCreateCommitAct
  \/ CheckRaceLLMAct
  \/ CheckRaceRawAct
  \/ CheckRaceIncompleteAct
  \/ CheckRaceImpactsAct
  \/ CheckRaceCommitAct
  \/ CheckRaceAgainAct

SpecCheckRace == InitCheckRace /\ [][NextCheckRace]_vars

\* C37: in every interleaving of a consistency check with a create, the check
\* deletes neither the RawEmail nor the LLMData (nor the Notification) of the
\* notification being created, and when both have finished the created
\* notification is in the store with both of its sub-records.
C37_CheckSparesCreate ==
  /\ sessions.check.deleted.raw \cap sessions.create.rows.raw = {}
  /\ sessions.check.deleted.llm \cap sessions.create.rows.llm = {}
  /\ sessions.check.deleted.notif \cap sessions.create.rows.notif = {}
  /\ (sessions.create.pc = "returned" /\ sessions.check.pc \in {"start", "done"})
       => /\ sessions.create.rows.notif \subseteq notifications
          /\ sessions.create.rows.raw \subseteq raw_emails
          /\ sessions.create.rows.llm \subseteq llm_data
          /\ orphaned_llm_data_records(Committed) \cap sessions.create.rows.llm = {}
          /\ orphaned_raw_email_records(Committed) \cap sessions.create.rows.raw = {}

\* C37 witness: a check that began while the rows of a create were flushed
\* and not committed has repaired the store, and the create has returned
C37_Witness ==
  /\ sessions.create.pc = "returned"
  /\ sessions.create.rows.notif # {}
  /\ sessions.check.pc = "done"
  /\ sessions.check.during
  /\ sessions.check.deleted # NoRows

\* -------------------------------------------------------- SpecNoOverride
\* One notification is created and its extraction is applied and marked as
\* failed in any order, with every processing status and every notification
\* type and never with an explicit notification status; no Update runs.
NoOverrideArguments ==
  [extracted_service_name : {<<"A", "W", "S">>},
   event_start_time : {EventStart},
   event_end_time : {NoneText},
   notification_type : NotificationTypeEnum \cup {NoEnum},
   severity : {"high"},
   llm_summary : {NoneText, SummaryPlain, SummaryRestored},
   processing_status : ProcessingStatusEnum,
   notification_status : {NoEnum}]

NoOverrideCreateAct ==
  /\ Idle
  /\ View.notif = {}
  /\ Call("Create", <<NextId(View.notif)>>,
          create_notification(View, <<"subject">>, NextId(View.raw), "none"), TRUE)

NoOverrideApplyAct ==
  /\ Idle
  /\ \E llm_data_id \in Ids(View.llm), f \in NoOverrideArguments,
        commit_fails \in BOOLEAN :
       Call("ApplyExtraction", <<llm_data_id>>,
            update_llm_data_extracted_fields(View, llm_data_id, f, commit_fails),
            TRUE)

NoOverrideMarkAct ==
  /\ Idle
  /\ \E llm_data_id \in Ids(View.llm), processing_status \in ProcessingStatusEnum,
        commit_fails \in BOOLEAN :
       Call("MarkExtractionFailed", <<llm_data_id>>,
            update_llm_data_status(View, llm_data_id, processing_status,
                                   <<"LLM error">>, commit_fails),
            TRUE)

NextNoOverride == NoOverrideCreateAct \/ NoOverrideApplyAct \/ NoOverrideMarkAct

SpecNoOverride == Init /\ [][NextNoOverride]_vars

\* the pairs (processing status, notification status) of the store
StatusPairs ==
  {<<l.processing_status, n.status>> :
     <<l, n>> \in {x \in llm_data \X notifications : x[2].llm_data_id = x[1].id}}

OverrideOnlyStatuses == {"triaged", "archived"}

\* the processing statuses no call of the pipeline passes
UnusedProcessingStatuses == {"pending_llm", "processing_llm"}

\* the statuses update_llm_data_extracted_fields without explicit status and
\* update_llm_data_status give a notification, over all their arguments
NoOverrideStatuses ==
  {ExtractionStatus(f.notification_type, f.llm_summary, f.processing_status,
                    f.notification_status) : f \in NoOverrideArguments}
  \cup {map_llm_status_to_notification_status(processing_status) :
          processing_status \in ProcessingStatusEnum}

RECURSIVE DeleteTrace(_, _, _, _)
RECURSIVE TraceEndNotifications(_, _, _, _)

\* for end_id in end_notifications_to_delete:
\*     if end_id != notification_id: delete_notification(db, end_id, internal_call=True)
TraceEndNotifications(t, ends, notification_id, events_at_entry) ==
  IF ends = <<>> THEN t
  ELSE LET r == IF Head(ends) # notification_id
                THEN DeleteTrace(t, Head(ends), TRUE, events_at_entry)
                ELSE t
       IN TraceEndNotifications(r, Tail(ends), notification_id, events_at_entry)

DeleteTrace(t, notification_id, internal_call, caller_events) ==
  LET call == [notification_id |-> notification_id,
               internal_call |-> internal_call,
               removed |-> caller_events - Cardinality(t.W.events)]
      ends == EndNotificationsToDelete(t.W, notification_id)
      W1 == DeleteStartedEvents(t.W, notification_id)
      W2 == ReopenEndedEvents(W1, notification_id)
      found == {n \in W2.notif : n.id = notification_id}
      entered == Append(t.calls, call)
  IN IF found = {}
     THEN [W |-> NotFoundCopy(t.W, W2), calls |-> entered]
     ELSE LET r == TraceEndNotifications([W |-> W2, calls |-> entered], ends,
                                         notification_id,
                                         Cardinality(t.W.events))
          IN [W |-> DeleteRows(r.W, CHOOSE n \in found : TRUE), calls |-> r.calls]

\* the calls of Delete(notification_id) on the session's view of the store
DeleteCalls(notification_id) ==
  DeleteTrace([W |-> View, calls |-> <<>>], notification_id, FALSE,
              Cardinality(View.events))

\* n starts an event ended by m and m starts an event ended by n
Cyclic(W, n, m) ==
  /\ n # m
  /\ {n, m} \subseteq Ids(W.notif)
  /\ \E e \in W.events : e.start_notification_id = n /\ e.end_notification_id = m
  /\ \E e \in W.events : e.start_notification_id = m /\ e.end_notification_id = n

\* C40: on every store, with cycles of references and with events whose
\* start and end are one notification, Delete(n) returns after at most one
\* call for itself and one for every event of the store; every recursive
\* call is entered after its caller has removed at least one DowntimeEvent;
\* and the calls leave the store that delete_notification leaves.
C40_DeleteTerminates ==
  \A n \in NotifIds :
    LET t == DeleteCalls(n)
    IN /\ Len(t.calls) <= 1 + Cardinality(View.events)
       /\ t.calls[1] = [notification_id |-> n, internal_call |-> FALSE, removed |-> 0]
       /\ \A i \in 2..Len(t.calls) :
            /\ t.calls[i].internal_call
            /\ t.calls[i].removed >= 1
       /\ t.W = delete_notification(Committed,
                                    [W |-> View, closed |-> FALSE, ret |-> TRUE],
                                    n, Null).W

\* C40 witness: two notifications start an event each that the other ends, a
\* Delete of either calls delete_notification for the other and removes
\* both notifications and both events
C40_Witness ==
  \E n, m \in NotifIds :
    /\ Cyclic(View, n, m)
    /\ Len(DeleteCalls(n).calls) = 2
    /\ DeleteCalls(n).calls[2].notification_id = m
    /\ DeleteCalls(n).W.events = {}
    /\ {n, m} \cap Ids(DeleteCalls(n).W.notif) = {}

\* an event started and ended by one notification: its Delete makes no
\* recursive call and removes the event
SelfReferenceMakesOneCall ==
  \A n \in NotifIds :
    (/\ n \in Ids(View.notif)
     /\ \A e \in View.events : e.start_notification_id = n => e.end_notification_id = n)
      => Len(DeleteCalls(n).calls) = 1

====
